---- MODULE Spec2Model ----
(***************************************************************************)
(* Chunk streaming scheduler of bevy-voxel (src/world.rs).                 *)
(*                                                                         *)
(* The six systems of WorldPlugin run once per frame.  init_generation,    *)
(* handle_generation, init_mesh and handle_mesh are unordered among each   *)
(* other, despawn_chunks runs after the four and regenerate_chunks after   *)
(* despawn_chunks.  Commands (spawn, insert, remove, despawn) are deferred *)
(* and applied at the end of the frame, system by system; the VoxelWorld   *)
(* map and the MissingNeighbors counters are mutated at once.  Generation  *)
(* and meshing tasks run on the AsyncComputeTaskPool.                      *)
(*                                                                         *)
(* The voxel functions the tasks run (src/chunk.rs, src/block.rs,          *)
(* src/generation.rs) are followed on small chunks, in specifications of   *)
(* their own.                                                              *)
(***************************************************************************)
EXTENDS Integers, Sequences, FiniteSets, TLC

\* ---------------------------------------------------------------- bounds
\* worker threads of the task pool
PoolThreads == 13
\* how many times the observer changes chunk
MaxMoves == 1
\* how many regenerate events the UI sends
MaxRegenerates == 1
\* frames of the run
MaxTicks == 3
\* frames and chunk changes of a run in which the observer leaves and returns
MaxRoamTicks == 7
MaxRoamMoves == 2
\* frames of such a run with the wider view distance
MaxWideTicks == 3
\* frames of a run in which the generation parameters are edited
MaxGenTicks == 6
\* cells in which a chunk differs from a chunk filled with one block
MaxEdits == 1
\* the density field repeats after so many layers
Period == 6
\* the largest setting of the "Dirt" slider
MaxDirtHeight == 3
\* chunks are generated up to so many layers above and below the origin
MaxChunkY == 6
\* cells written into one chunk through IndexMut
MaxWrites == 2
\* a Range3 spans up to so many cells along each axis
MaxSpan == 2

\* ------------------------------------------------------------- constants
\* Chunk::SIZE
SIZE == 32
\* the default height range of the world
MIN_HEIGHT == -128
MAX_HEIGHT == 128
\* the default depth of the dirt
DIRT_HEIGHT == 2

VARIABLES
    translation,    \* player Transform.translation (world units)
    view_distance,  \* PlayerSettings.view_distance
    chunks,         \* VoxelWorld.chunks : position -> entity
    ents,           \* live chunk entities and their components
    nextEnt,        \* next entity id handed out by Commands::spawn
    cmds,           \* deferred commands of the running frame, per system
    pool,           \* tasks of the AsyncComputeTaskPool, in spawn order
    events,         \* unread RegenerateEvents
    ran,            \* systems that already ran in this frame
    fired,          \* regenerate_chunks took its branch in this frame
    regenerates,    \* number of "Regenerate!" log lines
    meshLog,        \* mesh tasks spawned so far
    moves,          \* observer chunk changes so far
    ticks,          \* frames completed
    frames,         \* frames the run lasts
    noise,          \* the WorldGen resource
    regenNoise,     \* the WorldGen resource as of the last regenerate
    genLog,         \* generation tasks spawned so far
    chunk,          \* a Chunk: cell -> BlockId
    other,          \* the Chunk that lies next to it, in every direction
    out,            \* what the last call of Chunk::border or Chunk::mesh returned
    density,        \* the cells the noise makes solid, as generate_chunk samples it
    app             \* AppState, the assets being loaded, TextureMap and BLOCKS

vars == <<translation, view_distance, chunks, ents, nextEnt, cmds, pool,
          events, ran, fired, regenerates, meshLog, moves, ticks, frames,
          noise, regenNoise, genLog, chunk, other, out, density, app>>

\* the state of the scheduler and the state of the voxel functions
worldVars == <<translation, view_distance, chunks, ents, nextEnt, cmds, pool,
               events, ran, fired, regenerates, meshLog, moves, ticks, frames,
               noise, regenNoise, genLog, app>>
voxelVars == <<chunk, other, out, density>>

\* ----------------------------------------------------------- vector maths
Abs(n) == IF n < 0 THEN -n ELSE n
Max2(a, b) == IF a > b THEN a ELSE b
Min2(a, b) == IF a < b THEN a ELSE b

Add(p, q) == <<p[1] + q[1], p[2] + q[2], p[3] + q[3]>>
Sub(p, q) == <<p[1] - q[1], p[2] - q[2], p[3] - q[3]>>

max_element(p) == Max2(p[1], Max2(p[2], p[3]))
min_element(p) == Min2(p[1], Min2(p[2], p[3]))

distance(p) == Max2(Abs(max_element(p)), Abs(min_element(p)))

\* f32::round of n/d for d > 0: half away from zero
RoundDiv(n, d) ==
    IF n >= 0 THEN (2 * n + d) \div (2 * d)
              ELSE -((2 * (-n) + d) \div (2 * d))

chunk_pos(p) ==
    <<RoundDiv(2 * p[1] - SIZE, 2 * SIZE),
      RoundDiv(2 * p[2] - SIZE, 2 * SIZE),
      RoundDiv(2 * p[3] - SIZE, 2 * SIZE)>>

world_pos(p) == <<p[1] * SIZE, p[2] * SIZE, p[3] * SIZE>>

\* Direction::all() as IVec3
DirectionAll ==
    << <<-1, 0, 0>>, <<0, -1, 0>>, <<0, 0, -1>>,
       <<1, 0, 0>>, <<0, 1, 0>>, <<0, 0, 1>> >>

\* Direction::inverse
inverse(d) == ((d + 2) % 6) + 1

Neighbors(pos) == { Add(pos, DirectionAll[i]) : i \in 1..6 }

center == chunk_pos(translation)

SeqRange(s) == { s[i] : i \in 1..Len(s) }

\* ------------------------------------------------------------- task pool
\* pool = [queue |-> tasks spawned and not yet returned, in spawn order,
\*         done  |-> tasks whose result waits in the Task handle]
\* A task is <<kind, entity>>; the handle lives in the entity's Generating or
\* Meshing component.
PoolSpawn(p, ids) == [p EXCEPT !.queue = @ \o ids]

\* the poll waits for the task: what is still running counts as returned
TaskDone_Block(id) == id \in pool.done \cup SeqRange(pool.queue)

\* future::poll_once on the handle yields the result
TaskDone(id) == id \in pool.done

\* dropping a Task handle cancels the task and discards its result
PoolDrop(p, ids) ==
    [queue |-> SelectSeq(p.queue, LAMBDA t : t \notin ids),
     done  |-> p.done \ ids]

\* ------------------------------------------------------- command queues
\* the systems of the Update schedule that WorldPlugin adds, in the order in
\* which their command queues are applied
Systems ==
    <<"init_generation", "handle_generation", "init_mesh", "handle_mesh",
      "despawn_chunks", "regenerate_chunks">>

\* every system has a command queue of its own
NoCommands == [s \in SeqRange(Systems) |-> <<>>]

Queue(sys, cs) == [cmds EXCEPT ![sys] = @ \o cs]

\* ------------------------------------------------- chunk.rs and block.rs
\* The voxel functions are followed on chunks of Edge cells per axis instead
\* of Chunk::SIZE.  Edge * Edge is a multiple of 8, as SIZE * SIZE is, so the
\* bits of a Border fill whole bytes.
Edge == SIZE \div 8

Cells == (0..(Edge - 1)) \X (0..(Edge - 1)) \X (0..(Edge - 1))

\* the coordinates of a Border
Surface == (0..(Edge - 1)) \X (0..(Edge - 1))

\* Face.cull is a direction 1..6 or None
NoCull == 0

\* The block table, BlockId(n) at index n + 1: air; a block that fills its
\* cell, every face culled by the neighbour it looks at; a see-through block
\* whose faces are never culled; a see-through block whose faces are all
\* culled by the neighbour below; a block of two cubes that fills its cell,
\* the faces of the first cube culled by the neighbour they look at and the
\* faces of the second never.  A cube is given by the cull of its six faces,
\* in the order of Direction::all.
Blocks ==
    << [opaque |-> FALSE, cubes |-> <<>>],
       [opaque |-> TRUE,  cubes |-> << [faces |-> <<1, 2, 3, 4, 5, 6>>] >>],
       [opaque |-> FALSE, cubes |-> << [faces |-> <<NoCull, NoCull, NoCull,
                                                     NoCull, NoCull, NoCull>>] >>],
       [opaque |-> FALSE, cubes |-> << [faces |-> <<2, 2, 2, 2, 2, 2>>] >>],
       [opaque |-> TRUE,  cubes |-> << [faces |-> <<1, 2, 3, 4, 5, 6>>],
                                       [faces |-> <<NoCull, NoCull, NoCull,
                                                    NoCull, NoCull, NoCull>>] >>] >>

BlockIds == 0..(Len(Blocks) - 1)

\* Chunk::new
ChunkNew(block) == [p \in Cells |-> block]

\* every block but air counts as occupied
occupied_Any(c, pos) == c[pos] # 0

\* Chunk::occupied
occupied(c, pos) == Blocks[c[pos] + 1].opaque

\* the quarter turns about y of NegX and PosX are exchanged
Rotate_Exchanged(d, v) ==
    CASE d = 1 -> <<-v[3], v[2], v[1]>>
      [] d = 2 -> <<v[1], v[3], -v[2]>>
      [] d = 3 -> v
      [] d = 4 -> <<v[3], v[2], -v[1]>>
      [] d = 5 -> <<v[1], -v[3], v[2]>>
      [] d = 6 -> <<-v[1], v[2], -v[3]>>

\* Quat::from(d) * v: NegX and PosX turn about y by a quarter, NegY and PosY
\* about x, PosZ about y by a half
Rotate(d, v) ==
    CASE d = 1 -> <<v[3], v[2], -v[1]>>
      [] d = 2 -> <<v[1], v[3], -v[2]>>
      [] d = 3 -> v
      [] d = 4 -> <<-v[3], v[2], v[1]>>
      [] d = 5 -> <<v[1], -v[3], v[2]>>
      [] d = 6 -> <<-v[1], v[2], -v[3]>>

\* Quat::from(d).inverse() * v
RotateInv(d, v) ==
    CASE d = 1 -> <<-v[3], v[2], v[1]>>
      [] d = 2 -> <<v[1], -v[3], v[2]>>
      [] d = 3 -> v
      [] d = 4 -> <<v[3], v[2], -v[1]>>
      [] d = 5 -> <<v[1], v[3], -v[2]>>
      [] d = 6 -> <<-v[1], v[2], -v[3]>>

\* f32 round and as_uvec3 of (n + Edge - 1) / 2, n being twice a coordinate
\* taken from the centre (Edge - 1) / 2; a negative value is cast to 0
FromCenter(n) == Max2(0, (n + Edge - 1) \div 2)

\* the surface is turned about the corner of the chunk, not about its centre
from_surface_Corner(d, v) ==
    LET r == Rotate(d, <<v[1], v[2], 0>>)
    IN <<Max2(0, r[1]), Max2(0, r[2]), Max2(0, r[3])>>

\* Chunk::from_surface
from_surface(d, v) ==
    LET r == Rotate(d, <<2 * v[1] - (Edge - 1), 2 * v[2] - (Edge - 1), -(Edge - 1)>>)
    IN <<FromCenter(r[1]), FromCenter(r[2]), FromCenter(r[3])>>

\* Chunk::to_surface
to_surface(d, p) ==
    LET r == RotateInv(d, <<2 * p[1] - (Edge - 1), 2 * p[2] - (Edge - 1),
                            2 * p[3] - (Edge - 1)>>)
    IN <<FromCenter(r[1]), FromCenter(r[2])>>

\* Border: Edge * Edge / 8 bytes, all zero at first
BorderNew == [j \in 1..((Edge * Edge) \div 8) |-> 0]

\* bit k of byte b
Bit(b, k) == (b \div (2 ^ k)) % 2

\* Border::occupied
BorderOccupied(b, p) ==
    LET i == p[1] + p[2] * Edge
    IN Bit(b[(i \div 8) + 1], i % 8) # 0

\* Border::set_occupied
set_occupied(b, p) ==
    LET i == p[1] + p[2] * Edge
    IN [b EXCEPT ![(i \div 8) + 1] = IF Bit(@, i % 8) = 1 THEN @ ELSE @ + 2 ^ (i % 8)]

\* the loops of Chunk::border over y and x, from the i-th bit on
RECURSIVE BorderLoop(_, _, _, _)
BorderLoop(c, dir, i, b) ==
    IF i = Edge * Edge THEN b
    ELSE LET v == <<i % Edge, i \div Edge>>
         IN BorderLoop(c, dir, i + 1,
                       IF occupied(c, from_surface(dir, v))
                       THEN set_occupied(b, v) ELSE b)

\* the direction is not looked at: every border is taken on the NegZ side
border_Front(c, dir) == BorderLoop(c, 3, 0, BorderNew)

\* Chunk::border
border(c, dir) == BorderLoop(c, dir, 0, BorderNew)

\* the border of the neighbour is taken on the side it has in common with the
\* direction, not on the one that faces the chunk
Borders_SameSide(c) == [d \in 1..6 |-> border(c, d)]

\* init_mesh: borders[d] is the border of the neighbour in direction d, on
\* the side that faces the chunk
Borders(c) == [d \in 1..6 |-> border(c, inverse(d))]

InBounds(p) == \A i \in 1..3 : p[i] >= 0 /\ p[i] < Edge

\* (p + MAX) % MAX
Wrap(p) == <<(p[1] + Edge) % Edge, (p[2] + Edge) % Edge, (p[3] + Edge) % Edge>>

\* Chunk::mesh: the array occupied of the cell pos
Occupied6(c, neighbors, pos) ==
    [d \in 1..6 |->
        LET p == Add(pos, DirectionAll[d])
        IN IF InBounds(p) THEN occupied(c, p)
           ELSE BorderOccupied(neighbors[d], to_surface(inverse(d), Wrap(p)))]

\* no cell counts as enclosed
Enclosed_Never(occ) == FALSE

\* Chunk::mesh: occupied.iter().all(|b| *b)
Enclosed(occ) == \A d \in 1..6 : occ[d]

\* no face is ever left out
CubeMesh_All(cube, k, pos, occ) ==
    { [pos |-> pos, cube |-> k, d |-> d] : d \in 1..6 }

\* Cube::mesh: the quads of cube k of the block in cell pos
CubeMesh(cube, k, pos, occ) ==
    { [pos |-> pos, cube |-> k, d |-> d] :
        d \in { d \in 1..6 : ~(cube.faces[d] = d /\ occ[d]) } }

\* Chunk::mesh: the body of the loop over the cells, the quads of cell pos
CellMesh(c, neighbors, pos) ==
    LET occ == Occupied6(c, neighbors, pos)
        cubes == Blocks[c[pos] + 1].cubes
    IN IF Enclosed(occ) THEN {}
       ELSE UNION { CubeMesh(cubes[k], k, pos, occ) : k \in 1..Len(cubes) }

\* Chunk::mesh: the quads of the mesh, without their order in the buffers
mesh(c, neighbors) == UNION { CellMesh(c, neighbors, pos) : pos \in Cells }

\* nothing was called yet
NoOutput ==
    [op |-> "none", d |-> 0, border |-> BorderNew,
     borders |-> [d \in 1..6 |-> BorderNew], quads |-> {}]

\* ------------------------------------------------------ world generation
\* WorldGen, reduced to the height range and the dirt settings: the other
\* fields only enter the noise, which is a function of the position and of
\* the parameters (the seed of RidgedMulti is the literal 0)
WorldGenDefault ==
    [height |-> <<MIN_HEIGHT, MAX_HEIGHT>>,
     dirt_height |-> DIRT_HEIGHT,
     dirt_range |-> <<MIN_HEIGHT \div 2, MAX_HEIGHT \div 2>>]

\* the settings the "max" height slider is moved between
WorldGens == { WorldGenDefault, [WorldGenDefault EXCEPT !.height = <<MIN_HEIGHT, 0>>] }

\* f32 ceil and floor of n / d for d > 0
CeilDiv(n, d) == -((-n) \div d)
FloorDiv(n, d) == n \div d

\* Chunk::new(block): every cell holds block
Uniform(block) ==
    [uniform |-> TRUE, block |-> block, pos |-> <<0, 0, 0>>, height |-> <<0, 0>>]

\* the chunk the noise fills at pos under gen
Terrain(pos, gen) ==
    [uniform |-> FALSE, block |-> 0, pos |-> pos, height |-> gen.height]

\* the chunk data depends on when it is generated
generate_chunk_Epoch(pos, gen) ==
    [uniform |-> FALSE, block |-> regenerates, pos |-> pos, height |-> gen.height]

generate_chunk(pos, gen) ==
    IF pos[2] > CeilDiv(gen.height[2], SIZE) THEN Uniform(0)
    ELSE IF pos[2] < FloorDiv(gen.height[1] - 1, SIZE) THEN Uniform(1)
    ELSE Terrain(pos, gen)

\* gen.base_limit.contains(&solid.get(gp)): the noise is taken as given, a
\* slope that repeats every Period layers, solid in the layers of density
Solid(gp) == ((gp[1] + gp[2] + gp[3]) % Period) \in density

\* the world cell of cell p of the chunk at pos: p + b_pos
WorldCell(pos, p) == <<p[1] + pos[1] * Edge, p[2] + pos[2] * Edge, p[3] + pos[3] * Edge>>

\* gen.dirt_range.contains(&y)
InDirtRange(gen, y) == gen.dirt_range[1] <= y /\ y < gen.dirt_range[2]

\* the cells above the top face of the chunk are taken as not solid
Fill_Local(pos, gen) ==
    [p \in Cells |->
        LET gp == WorldCell(pos, p)
            Above(i) == p[2] + i < Edge /\ Solid(Add(gp, <<0, i, 0>>))
        IN IF ~Solid(gp) THEN 0
           ELSE IF ~InDirtRange(gen, gp[2]) THEN 1
           ELSE IF ~Above(1) THEN 3
           ELSE IF \E i \in 2..gen.dirt_height : ~Above(i) THEN 2
           ELSE 1]

\* generate_chunk: the loop over the cells of a chunk that starts as air;
\* BlockId 1 is stone, 2 dirt, 3 grass
Fill(pos, gen) ==
    [p \in Cells |->
        LET gp == WorldCell(pos, p)
        IN IF ~Solid(gp) THEN 0
           ELSE IF ~InDirtRange(gen, gp[2]) THEN 1
           ELSE IF ~Solid(Add(gp, <<0, 1, 0>>)) THEN 3
           ELSE IF \E i \in 2..gen.dirt_height : ~Solid(Add(gp, <<0, i, 0>>)) THEN 2
           ELSE 1]

\* ------------------------------------------------------------- AppState
\* the files of assets/textures, by file stem
TextureNames == {"stone", "dirt", "grass"}

\* the files of assets/blocks: the id of a block and the textures its faces
\* name; BlockId 0 is air, 1 stone, 2 dirt, 3 grass
BlockFiles ==
    { [id |-> 0, textures |-> {}],
      [id |-> 1, textures |-> {"stone"}],
      [id |-> 2, textures |-> {"dirt"}],
      [id |-> 3, textures |-> {"grass", "dirt"}] }

\* AppState::Running was entered with all of both folders loaded
AppRunning ==
    [state |-> "Running", textures |-> TextureNames, blocks |-> BlockFiles,
     images |-> {}, atlas |-> TextureNames, files |-> {},
     registry |-> { f.id : f \in BlockFiles }, panic |-> "none"]

\* run_if(in_state(AppState::Running)), in a process that has not panicked
InRunning == app.state = "Running" /\ app.panic = "none"

\* ------------------------------------------------------------------ Init
\* The world is empty, as when AppState::Running is entered or right after a
\* regenerate; the observer stands where player::setup puts the camera.  The
\* view distance is the lowest setting of the slider (the default is 6).
StartTranslation == <<0, 0, 2>>

NoChunks == [p \in {} |-> 0]

Init ==
    /\ translation = StartTranslation
    /\ view_distance = 1
    /\ chunks = NoChunks
    /\ ents = [e \in {} |-> 0]
    /\ nextEnt = 1
    /\ cmds = NoCommands
    /\ pool = [queue |-> <<>>, done |-> {}]
    /\ events = 0
    /\ ran = {}
    /\ fired = FALSE
    /\ regenerates = 0
    /\ meshLog = {}
    /\ moves = 0
    /\ ticks = 0
    /\ frames = MaxTicks
    /\ noise = WorldGenDefault
    /\ regenNoise = noise
    /\ genLog = {}
    /\ chunk = ChunkNew(0)
    /\ other = ChunkNew(0)
    /\ out = NoOutput
    /\ density = {}
    /\ app = AppRunning

\* ------------------------------------------------------- init_generation
\* offsets in the order of the loops over x, z, y
Side(dist) == 2 * dist + 1

AllOffsets(dist) ==
    LET n == Side(dist)
    IN [k \in 1..(n * n * n) |->
           <<((k - 1) \div (n * n)) - dist,
             ((k - 1) % n) - dist,
             (((k - 1) \div n) % n) - dist>>]

\* the shell loop stops one shell early
RECURSIVE ShellOffsets_Short(_, _)
ShellOffsets_Short(dist, d) ==
    IF d >= dist - 1 THEN <<>>
    ELSE SelectSeq(AllOffsets(dist), LAMBDA off : distance(off) = d)
             \o ShellOffsets_Short(dist, d + 1)

RECURSIVE ShellOffsets(_, _)
ShellOffsets(dist, d) ==
    IF d >= dist THEN <<>>
    ELSE SelectSeq(AllOffsets(dist), LAMBDA off : distance(off) = d)
             \o ShellOffsets(dist, d + 1)

\* components of a chunk entity: Generating, MissingNeighbors (with its
\* value), ChunkData, RequiresMesh, Meshing, and the PbrBundle with the mesh
NewEntity(pos) ==
    [pos |-> pos, gen |-> TRUE, mn |-> FALSE, missing |-> 0, data |-> FALSE,
     req |-> FALSE, meshing |-> FALSE, mesh |-> FALSE]

\* entities in ascending id order
SortedSeq(S) == SelectSeq([i \in 1..(nextEnt - 1) |-> i], LAMBDA i : i \in S)

\* the offsets init_generation visits, per view distance
ViewDistances == {1, 2}

\* the loops over x, z, y without the loop over the shells around them
Offsets_Unsorted ==
    [vd \in ViewDistances |->
        SelectSeq(AllOffsets(vd + 1), LAMBDA off : distance(off) < vd + 1)]

Offsets == [vd \in ViewDistances |-> ShellOffsets(vd + 1, 0)]

FrameOpen == ran \cap {"despawn_chunks", "regenerate_chunks"} = {}

\* the run may start another frame: a run with frames < 0 has no last frame
FrameBudget == frames < 0 \/ ticks < frames

init_generation ==
    /\ "init_generation" \notin ran
    /\ InRunning
    /\ FrameOpen
    /\ FrameBudget
    /\ LET offs == Offsets[view_distance]
           all  == [i \in 1..Len(offs) |-> Add(center, offs[i])]
           ent(i) == nextEnt + i - 1
       IN \E news \in {SelectSeq(all, LAMBDA p : p \notin DOMAIN chunks)} :
          /\ chunks' = [p \in DOMAIN chunks \cup SeqRange(news) |->
                           IF p \in DOMAIN chunks THEN chunks[p]
                           ELSE ent(CHOOSE i \in 1..Len(news) : news[i] = p)]
          /\ cmds' = Queue("init_generation",
                           [i \in 1..Len(news) |->
                               [op |-> "spawn", e |-> ent(i), pos |-> news[i]]])
          /\ pool' = PoolSpawn(pool, [i \in 1..Len(news) |-> <<"gen", ent(i)>>])
          /\ nextEnt' = nextEnt + Len(news)
          \* every task takes a clone of the WorldGen resource as it is now
          /\ genLog' = IF news = <<>> THEN genLog
                        ELSE genLog \cup
                             { [ent |-> ent(i), pos |-> news[i], gen |-> noise,
                                regen |-> regenNoise, epoch |-> regenerates]
                               : i \in 1..Len(news) }
    /\ ran' = ran \cup {"init_generation"}
    /\ UNCHANGED <<translation, view_distance, ents, events, fired,
                   regenerates, meshLog, moves, ticks, frames>>
    /\ UNCHANGED <<noise, regenNoise>>
    /\ UNCHANGED voxelVars
    /\ UNCHANGED app

\* ----------------------------------------------------- handle_generation
\* a counter of 1 is decremented as well
StillMissing_Zero(m) == m > 0

\* the test is off by one: a counter of 2 already counts as surrounded
StillMissing_Off(m) == m > 2

\* `if missing.0 > 1 { missing.0 -= 1 } else { surrounded.push(*entity) }`
StillMissing(m) == m > 1

\* the value of a MissingNeighbors counter after k of its neighbours' tasks
\* have passed the test of the inner loop
RECURSIVE CounterAfter(_, _)
CounterAfter(m, k) ==
    IF k = 0 THEN m
    ELSE CounterAfter(IF StillMissing(m) THEN m - 1 ELSE m, k - 1)

\* the directions in which the finished entity e finds, through the map, an
\* entity that the neighbors query yields
Counted(e) ==
    { i \in 1..6 :
        LET p == Add(ents[e].pos, DirectionAll[i])
        IN p \in DOMAIN chunks /\ chunks[p] \in DOMAIN ents /\ ents[chunks[p]].mn }

\* the iterations <<e, i>> of the two loops that reach a counter, and the
\* entity whose counter it is
Visits(ready) == { v \in ready \X (1..6) : v[2] \in Counted(v[1]) }

Visited(v) == chunks[Add(ents[v[1]].pos, DirectionAll[v[2]])]

\* the commands queued for the finished entity e; V[x] are the visits of x
GenerationDone(V, e) ==
    LET pos == ents[e].pos
        nb(i) == chunks[Add(pos, DirectionAll[i])]
        missing == 6 - Cardinality({ i \in 1..6 : Add(pos, DirectionAll[i]) \in DOMAIN chunks })
        earlier(i) == { v \in V[nb(i)] : v[1] < e \/ (v[1] = e /\ v[2] < i) }
        dirs == SelectSeq([i \in 1..6 |-> i],
                    LAMBDA i : /\ i \in Counted(e)
                               /\ ~StillMissing(CounterAfter(ents[nb(i)].missing,
                                                             Cardinality(earlier(i)))))
    IN <<[op |-> "generated", e |-> e, missing |-> missing]>>
       \o [k \in 1..Len(dirs) |-> [op |-> "surrounded", e |-> nb(dirs[k])]]

\* the commands of the entities es[lo..hi], in the order of the loop
RECURSIVE GenerationLoop(_, _, _, _)
GenerationLoop(V, es, lo, hi) ==
    IF lo > hi THEN <<>>
    ELSE IF lo = hi THEN GenerationDone(V, es[lo])
    ELSE LET mid == (lo + hi) \div 2
         IN GenerationLoop(V, es, lo, mid) \o GenerationLoop(V, es, mid + 1, hi)

handle_generation ==
    /\ "handle_generation" \notin ran
    /\ InRunning
    /\ FrameOpen
    /\ FrameBudget
    /\ \E ready \in {{ e \in DOMAIN ents : ents[e].gen /\ TaskDone(<<"gen", e>>) }} :
       \E waiting \in {{ x \in DOMAIN ents : ents[x].mn }} :
       \E A \in {Visits(ready)} :
       \E V \in {[x \in waiting |-> { v \in A : Visited(v) = x }]} :
       \E es \in {SortedSeq(ready)} :
          \* the counters are written in place; no counter reached, no write
          /\ ents' = IF A = {} THEN ents
                     ELSE [x \in DOMAIN ents |->
                             IF x \in waiting
                             THEN [ents[x] EXCEPT
                                     !.missing = CounterAfter(@, Cardinality(V[x]))]
                             ELSE ents[x]]
          /\ cmds' = Queue("handle_generation", GenerationLoop(V, es, 1, Len(es)))
          /\ pool' = PoolDrop(pool, { <<"gen", e>> : e \in ready })
    /\ ran' = ran \cup {"handle_generation"}
    /\ UNCHANGED <<translation, view_distance, chunks, nextEnt, events, fired,
                   regenerates, meshLog, moves, ticks, frames>>
    /\ UNCHANGED <<noise, regenNoise, genLog>>
    /\ UNCHANGED voxelVars
    /\ UNCHANGED app

\* -------------------------------------------------------------- init_mesh
\* the neighbours are looked up in the map but their ChunkData is not asked for
MeshEligible_NoData(e) ==
    /\ ents[e].data /\ ents[e].req
    /\ ~(distance(Sub(center, ents[e].pos)) >= view_distance)
    /\ \A i \in 1..6 : Add(ents[e].pos, DirectionAll[i]) \in DOMAIN chunks

\* the distance test is one shell too strict
MeshEligible_Inner(e) ==
    /\ ents[e].data /\ ents[e].req
    /\ ~(distance(Sub(center, ents[e].pos)) >= view_distance - 1)
    /\ \A i \in 1..6 :
          LET p == Add(ents[e].pos, DirectionAll[i])
          IN /\ p \in DOMAIN chunks
             /\ chunks[p] \in DOMAIN ents
             /\ ents[chunks[p]].data

\* the distance to the observer is not looked at
MeshEligible_Far(e) ==
    /\ ents[e].data /\ ents[e].req
    /\ \A i \in 1..6 :
          LET p == Add(ents[e].pos, DirectionAll[i])
          IN /\ p \in DOMAIN chunks
             /\ chunks[p] \in DOMAIN ents
             /\ ents[chunks[p]].data

\* the closure of query_mesh.for_each reaches thread_pool.spawn for e
MeshEligible(e) ==
    /\ ents[e].data /\ ents[e].req
    /\ ~(distance(Sub(center, ents[e].pos)) >= view_distance)
    /\ \A i \in 1..6 :
          LET p == Add(ents[e].pos, DirectionAll[i])
          IN /\ p \in DOMAIN chunks
             /\ chunks[p] \in DOMAIN ents
             /\ ents[chunks[p]].data

\* only the first eligible entity is taken in a frame
MeshBatch_One ==
    LET es == SortedSeq({ e \in DOMAIN ents : MeshEligible(e) })
    IN IF es = <<>> THEN es ELSE <<Head(es)>>

\* the entities query_mesh.for_each spawns a meshing task for
MeshBatch == SortedSeq({ e \in DOMAIN ents : MeshEligible(e) })

\* ChunkData of a chunk entity: what its generation task returned
ChunkData(e) ==
    LET r == CHOOSE r \in genLog : r.ent = e
    IN generate_chunk(r.pos, r.gen)

\* what the meshing task of e is given: a clone of its chunk and, per
\* direction d, the border of the chunk the map holds at pos + d, taken on the
\* side inverse(d)
MeshInput(e) ==
    [chunk   |-> ChunkData(e),
     borders |-> [d \in 1..6 |->
                    [side |-> inverse(d),
                     of   |-> ChunkData(chunks[Add(ents[e].pos, DirectionAll[d])])]]]

\* the ids chunk.border(side, &blocks) looks up in BLOCKS for the chunk of
\* entity e: Chunk::occupied indexes the map with the block of every cell of
\* that face
FaceIds(e, side) ==
    LET r == CHOOSE r \in genLog : r.ent = e
        data == generate_chunk(r.pos, r.gen)
    IN IF data.uniform THEN {data.block}
       ELSE { Fill(r.pos, r.gen)[from_surface(side, v)] : v \in Surface }

\* the directions for which the loop of init_mesh over the neighbours of e
\* gets as far as the call of border
BorderCalls(e) ==
    { i \in 1..6 :
        \A j \in 1..i :
            LET p == Add(ents[e].pos, DirectionAll[j])
            IN /\ p \in DOMAIN chunks
               /\ chunks[p] \in DOMAIN ents
               /\ ents[chunks[p]].data }

\* blocks[&id] panics in one of the calls of border: the id is no key of BLOCKS
UnknownBlock ==
    \E e \in DOMAIN ents :
        /\ ents[e].data /\ ents[e].req
        /\ ~(distance(Sub(center, ents[e].pos)) >= view_distance)
        /\ \E i \in BorderCalls(e) :
              ~(FaceIds(chunks[Add(ents[e].pos, DirectionAll[i])], inverse(i))
                   \subseteq app.registry)

init_mesh ==
    /\ "init_mesh" \notin ran
    /\ InRunning
    /\ FrameOpen
    /\ FrameBudget
    /\ IF UnknownBlock
       THEN /\ app' = [app EXCEPT !.panic = "block"]
            /\ UNCHANGED <<pool, cmds, meshLog, ran>>
       ELSE /\ LET es == MeshBatch
                   nth(e) == Cardinality({ r \in meshLog : r.ent = e }) + 1
               IN /\ pool' = PoolSpawn(pool, [i \in 1..Len(es) |-> <<"mesh", es[i]>>])
                  /\ cmds' = Queue("init_mesh",
                                   [i \in 1..Len(es) |-> [op |-> "meshing", e |-> es[i]]])
                  /\ meshLog' = meshLog \cup
                        { [ent |-> e, pos |-> ents[e].pos, epoch |-> regenerates,
                           nth |-> nth(e), tick |-> ticks, input |-> MeshInput(e)]
                          : e \in SeqRange(es) }
            /\ ran' = ran \cup {"init_mesh"}
            /\ UNCHANGED app
    /\ UNCHANGED <<translation, view_distance, chunks, ents, nextEnt, events,
                   fired, regenerates, moves, ticks, frames>>
    /\ UNCHANGED <<noise, regenNoise, genLog>>
    /\ UNCHANGED voxelVars

\* ------------------------------------------------------------ handle_mesh
handle_mesh ==
    /\ "handle_mesh" \notin ran
    /\ InRunning
    /\ FrameOpen
    /\ FrameBudget
    /\ LET ready == { e \in DOMAIN ents : ents[e].meshing /\ TaskDone(<<"mesh", e>>) }
           es == SortedSeq(ready)
       IN /\ cmds' = Queue("handle_mesh",
                           [i \in 1..Len(es) |-> [op |-> "visible", e |-> es[i]]])
          /\ pool' = PoolDrop(pool, { <<"mesh", e>> : e \in ready })
    /\ ran' = ran \cup {"handle_mesh"}
    /\ UNCHANGED <<translation, view_distance, chunks, ents, nextEnt, events,
                   fired, regenerates, meshLog, moves, ticks, frames>>
    /\ UNCHANGED <<noise, regenNoise, genLog>>
    /\ UNCHANGED voxelVars
    /\ UNCHANGED app

\* --------------------------------------------------------- despawn_chunks
\* the margin shell is kept
Evicted_Margin(e) == distance(Sub(center, ents[e].pos)) > view_distance + 1

Evicted(e) == distance(Sub(center, ents[e].pos)) > view_distance

despawn_chunks ==
    /\ {"init_generation", "handle_generation", "init_mesh", "handle_mesh"} \subseteq ran
    /\ "despawn_chunks" \notin ran
    /\ InRunning
    /\ LET es == SortedSeq({ e \in DOMAIN ents : Evicted(e) })
           gone == { ents[e].pos : e \in SeqRange(es) }
       IN /\ cmds' = Queue("despawn_chunks",
                           [i \in 1..Len(es) |-> [op |-> "despawn", e |-> es[i]]])
          /\ chunks' = [p \in DOMAIN chunks \ gone |-> chunks[p]]
    /\ ran' = ran \cup {"despawn_chunks"}
    /\ UNCHANGED <<translation, view_distance, ents, nextEnt, pool, events,
                   fired, regenerates, meshLog, moves, ticks, frames>>
    /\ UNCHANGED <<noise, regenNoise, genLog>>
    /\ UNCHANGED voxelVars
    /\ UNCHANGED app

\* ------------------------------------------------------ regenerate_chunks
regenerate_chunks ==
    /\ "despawn_chunks" \in ran
    /\ "regenerate_chunks" \notin ran
    /\ InRunning
    /\ IF events # 0
       THEN LET es == SortedSeq(DOMAIN ents)
            IN /\ events' = 0
               /\ regenerates' = regenerates + 1
               /\ fired' = TRUE
               /\ cmds' = Queue("regenerate_chunks",
                                [i \in 1..Len(es) |-> [op |-> "despawn", e |-> es[i]]])
               /\ chunks' = NoChunks
               /\ regenNoise' = noise
       ELSE UNCHANGED <<events, regenerates, fired, cmds, chunks, regenNoise>>
    /\ ran' = ran \cup {"regenerate_chunks"}
    /\ UNCHANGED <<translation, view_distance, ents, nextEnt, pool, meshLog,
                   moves, ticks, frames>>
    /\ UNCHANGED <<noise, genLog>>
    /\ UNCHANGED voxelVars
    /\ UNCHANGED app

\* ------------------------------------------- end of frame: apply commands
\* the component edits the systems queue
\* handle_generation: insert (MissingNeighbors | RequiresMesh, ChunkData),
\* remove Generating
InsertGenerated(c, missing) ==
    IF missing > 0
    THEN [c EXCEPT !.mn = TRUE, !.missing = missing, !.data = TRUE, !.gen = FALSE]
    ELSE [c EXCEPT !.req = TRUE, !.data = TRUE, !.gen = FALSE]

\* MissingNeighbors is left on the entity
InsertSurrounded_KeepMissing(c) == [c EXCEPT !.req = TRUE]

\* handle_generation: insert RequiresMesh, remove MissingNeighbors
InsertSurrounded(c) == [c EXCEPT !.req = TRUE, !.mn = FALSE, !.missing = 0]

\* RequiresMesh is left on the entity
InsertMeshing_KeepReq(c) == [c EXCEPT !.meshing = TRUE]

\* init_mesh: insert Meshing, remove RequiresMesh
InsertMeshing(c) == [c EXCEPT !.meshing = TRUE, !.req = FALSE]

\* handle_mesh: insert PbrBundle, remove Meshing
InsertVisible(c) == [c EXCEPT !.mesh = TRUE, !.meshing = FALSE]

\* One command applied to its entity; st = [alive |-> BOOLEAN, c |-> components]
ApplyCommand(st, c) ==
    IF c.op = "spawn" THEN [alive |-> TRUE, c |-> NewEntity(c.pos)]
    ELSE IF ~st.alive THEN st
    ELSE IF c.op = "generated" THEN [st EXCEPT !.c = InsertGenerated(@, c.missing)]
    ELSE IF c.op = "surrounded" THEN [st EXCEPT !.c = InsertSurrounded(@)]
    ELSE IF c.op = "meshing" THEN [st EXCEPT !.c = InsertMeshing(@)]
    ELSE IF c.op = "visible" THEN [st EXCEPT !.c = InsertVisible(@)]
    ELSE [st EXCEPT !.alive = FALSE]

RECURSIVE ApplyAll(_, _)
ApplyAll(st, cs) ==
    IF cs = <<>> THEN st ELSE ApplyAll(ApplyCommand(st, Head(cs)), Tail(cs))

\* the queues of the frame, one after the other
RECURSIVE Queued(_)
Queued(k) ==
    IF k > Len(Systems) THEN <<>> ELSE cmds[Systems[k]] \o Queued(k + 1)

\* the commands for entity e out of all, applied in order; the commands of
\* different entities do not touch each other's components
Applied(all, e) ==
    ApplyAll(IF e \in DOMAIN ents THEN [alive |-> TRUE, c |-> ents[e]]
             ELSE [alive |-> FALSE, c |-> NewEntity(<<0, 0, 0>>)],
             SelectSeq(all, LAMBDA c : c.e = e))

apply_deferred ==
    /\ "regenerate_chunks" \in ran
    /\ \E all \in {Queued(1)} :
       \E targets \in {DOMAIN ents \cup { all[i].e : i \in 1..Len(all) }} :
       \E res \in {[e \in targets |-> Applied(all, e)]} :
          LET live == { e \in targets : res[e].alive }
          IN /\ ents' = [e \in live |-> res[e].c]
             \* despawn drops the components and the task handles they own
             /\ pool' = PoolDrop(pool, { t \in {"gen", "mesh"} \X (targets \ live) : TRUE })
    /\ cmds' = NoCommands
    /\ ran' = {}
    /\ fired' = FALSE
    /\ ticks' = IF frames < 0 THEN ticks ELSE ticks + 1
    /\ UNCHANGED <<translation, view_distance, chunks, nextEnt, events,
                   regenerates, meshLog, moves, frames>>
    /\ UNCHANGED <<noise, regenNoise, genLog>>
    /\ UNCHANGED voxelVars
    /\ UNCHANGED app

\* ------------------------------------------------------------ environment
\* the worker threads return from generate_chunk or Chunk::mesh: the oldest
\* PoolThreads tasks of the queue are done.  A task that returns after both
\* polls of a frame is seen by the polls of the next frame, and one that
\* returns between the two polls is told apart from one that returns before
\* them only when a mesh task is in flight.
TaskFinish ==
    /\ pool.queue # <<>>
    /\ \/ ran = {}
       \/ /\ FrameOpen
          /\ Cardinality(ran \cap {"handle_generation", "handle_mesh"}) = 1
          /\ \E t \in SeqRange(pool.queue) \cup pool.done : t[1] = "mesh"
    /\ LET n == Min2(PoolThreads, Len(pool.queue))
       IN pool' = [queue |-> SubSeq(pool.queue, n + 1, Len(pool.queue)),
                   done  |-> pool.done \cup { pool.queue[i] : i \in 1..n }]
    /\ UNCHANGED <<translation, view_distance, chunks, ents, nextEnt, cmds,
                   events, ran, fired, regenerates, meshLog, moves, ticks, frames>>
    /\ UNCHANGED <<noise, regenNoise, genLog>>
    /\ UNCHANGED voxelVars
    /\ UNCHANGED app

\* player_movement carries the observer into the adjacent chunk along x
Moves == { <<1, 0, 0>> }

player_movement ==
    /\ moves < MaxMoves
    /\ \E m \in Moves : translation' = Add(translation, world_pos(m))
    /\ moves' = moves + 1
    /\ UNCHANGED <<view_distance, chunks, ents, nextEnt, cmds, pool, events,
                   ran, fired, regenerates, meshLog, ticks, frames>>
    /\ UNCHANGED <<noise, regenNoise, genLog>>
    /\ UNCHANGED voxelVars
    /\ UNCHANGED app

\* the observer crosses two chunks between two frames, away from the chunk
\* it started in and back to it
Jump == IF center = chunk_pos(StartTranslation) THEN <<2, 0, 0>> ELSE <<-2, 0, 0>>

roam_movement ==
    /\ ran = {}
    /\ moves < MaxRoamMoves
    /\ translation' = Add(translation, world_pos(Jump))
    /\ moves' = moves + 1
    /\ UNCHANGED <<view_distance, chunks, ents, nextEnt, cmds, pool, events,
                   ran, fired, regenerates, meshLog, ticks, frames>>
    /\ UNCHANGED <<noise, regenNoise, genLog>>
    /\ UNCHANGED voxelVars
    /\ UNCHANGED app

\* the pool has a thread for every task: all of the queue is done
PoolDrain ==
    /\ pool.queue # <<>>
    /\ \/ ran = {}
       \/ /\ FrameOpen
          /\ Cardinality(ran \cap {"handle_generation", "handle_mesh"}) = 1
          /\ \E t \in SeqRange(pool.queue) \cup pool.done : t[1] = "mesh"
    /\ pool' = [queue |-> <<>>, done |-> pool.done \cup SeqRange(pool.queue)]
    /\ UNCHANGED <<translation, view_distance, chunks, ents, nextEnt, cmds,
                   events, ran, fired, regenerates, meshLog, moves, ticks, frames>>
    /\ UNCHANGED <<noise, regenNoise, genLog>>
    /\ UNCHANGED voxelVars
    /\ UNCHANGED app

\* ui::update: the Regenerate button is clicked
send_regenerate ==
    /\ ran = {}
    /\ regenerates + events < MaxRegenerates
    /\ events' = events + 1
    /\ UNCHANGED <<translation, view_distance, chunks, ents, nextEnt, cmds,
                   pool, ran, fired, regenerates, meshLog, moves, ticks, frames>>
    /\ UNCHANGED <<noise, regenNoise, genLog>>
    /\ UNCHANGED voxelVars
    /\ UNCHANGED app

Next ==
    \/ init_generation
    \/ handle_generation
    \/ init_mesh
    \/ handle_mesh
    \/ despawn_chunks
    \/ regenerate_chunks
    \/ apply_deferred
    \/ TaskFinish
    \/ player_movement
    \/ send_regenerate

Spec == Init /\ [][Next]_vars

\* runs without regenerate in which the observer leaves a region and returns,
\* for both view distances; the wide view is followed for fewer frames
InitRoam ==
    /\ translation = StartTranslation
    /\ view_distance \in ViewDistances
    /\ chunks = NoChunks
    /\ ents = [e \in {} |-> 0]
    /\ nextEnt = 1
    /\ cmds = NoCommands
    /\ pool = [queue |-> <<>>, done |-> {}]
    /\ events = 0
    /\ ran = {}
    /\ fired = FALSE
    /\ regenerates = 0
    /\ meshLog = {}
    /\ moves = 0
    /\ ticks = 0
    /\ frames = IF view_distance = 1 THEN MaxRoamTicks ELSE MaxWideTicks
    /\ noise = WorldGenDefault
    /\ regenNoise = noise
    /\ genLog = {}
    /\ chunk = ChunkNew(0)
    /\ other = ChunkNew(0)
    /\ out = NoOutput
    /\ density = {}
    /\ app = AppRunning

NextRoam ==
    \/ init_generation
    \/ handle_generation
    \/ init_mesh
    \/ handle_mesh
    \/ despawn_chunks
    \/ regenerate_chunks
    \/ apply_deferred
    \/ PoolDrain
    \/ roam_movement

SpecRoam == InitRoam /\ [][NextRoam]_vars

\* runs without an end in which the observer stands still in chunk (0,0,0),
\* nothing is regenerated, every system runs in every frame and every task
\* returns
LiveTranslation == <<SIZE \div 2, SIZE \div 2, SIZE \div 2>>

InitLive ==
    /\ translation = LiveTranslation
    /\ view_distance = 1
    /\ chunks = NoChunks
    /\ ents = [e \in {} |-> 0]
    /\ nextEnt = 1
    /\ cmds = NoCommands
    /\ pool = [queue |-> <<>>, done |-> {}]
    /\ events = 0
    /\ ran = {}
    /\ fired = FALSE
    /\ regenerates = 0
    /\ meshLog = {}
    /\ moves = 0
    /\ ticks = 0
    /\ frames = -1
    /\ noise = WorldGenDefault
    /\ regenNoise = noise
    /\ genLog = {}
    /\ chunk = ChunkNew(0)
    /\ other = ChunkNew(0)
    /\ out = NoOutput
    /\ density = {}
    /\ app = AppRunning

NextLive ==
    \/ init_generation
    \/ handle_generation
    \/ init_mesh
    \/ handle_mesh
    \/ despawn_chunks
    \/ regenerate_chunks
    \/ apply_deferred
    \/ TaskFinish

SpecLive ==
    /\ InitLive
    /\ [][NextLive]_vars
    /\ WF_vars(init_generation)
    /\ WF_vars(handle_generation)
    /\ WF_vars(init_mesh)
    /\ WF_vars(handle_mesh)
    /\ WF_vars(despawn_chunks)
    /\ WF_vars(regenerate_chunks)
    /\ WF_vars(apply_deferred)
    /\ SF_vars(TaskFinish)

\* the same runs, for each view distance of ViewDistances
InitWide ==
    /\ translation = LiveTranslation
    /\ view_distance \in ViewDistances
    /\ chunks = NoChunks
    /\ ents = [e \in {} |-> 0]
    /\ nextEnt = 1
    /\ cmds = NoCommands
    /\ pool = [queue |-> <<>>, done |-> {}]
    /\ events = 0
    /\ ran = {}
    /\ fired = FALSE
    /\ regenerates = 0
    /\ meshLog = {}
    /\ moves = 0
    /\ ticks = 0
    /\ frames = -1
    /\ noise = WorldGenDefault
    /\ regenNoise = noise
    /\ genLog = {}
    /\ chunk = ChunkNew(0)
    /\ other = ChunkNew(0)
    /\ out = NoOutput
    /\ density = {}
    /\ app = AppRunning

\* every task that was spawned returns at once
NextWide ==
    \/ init_generation
    \/ handle_generation
    \/ init_mesh
    \/ handle_mesh
    \/ despawn_chunks
    \/ regenerate_chunks
    \/ apply_deferred
    \/ PoolDrain

SpecWide ==
    /\ InitWide
    /\ [][NextWide]_vars
    /\ WF_vars(init_generation)
    /\ WF_vars(handle_generation)
    /\ WF_vars(init_mesh)
    /\ WF_vars(handle_mesh)
    /\ WF_vars(despawn_chunks)
    /\ WF_vars(regenerate_chunks)
    /\ WF_vars(apply_deferred)
    /\ SF_vars(PoolDrain)

\* ui::update: the "max" height slider of the World Generation window is
\* dragged down
set_noise ==
    /\ ran = {}
    /\ noise = WorldGenDefault
    /\ \E g \in WorldGens \ {noise} : noise' = g
    /\ UNCHANGED <<translation, view_distance, chunks, ents, nextEnt, cmds,
                   pool, events, ran, fired, regenerates, meshLog, moves, ticks,
                   frames, regenNoise, genLog>>
    /\ UNCHANGED voxelVars
    /\ UNCHANGED app

\* runs in which the generation parameters are edited and the world is
\* regenerated while the observer stands still
InitGen ==
    /\ translation = StartTranslation
    /\ view_distance = 1
    /\ chunks = NoChunks
    /\ ents = [e \in {} |-> 0]
    /\ nextEnt = 1
    /\ cmds = NoCommands
    /\ pool = [queue |-> <<>>, done |-> {}]
    /\ events = 0
    /\ ran = {}
    /\ fired = FALSE
    /\ regenerates = 0
    /\ meshLog = {}
    /\ moves = 0
    /\ ticks = 0
    /\ frames = MaxGenTicks
    /\ noise = WorldGenDefault
    /\ regenNoise = noise
    /\ genLog = {}
    /\ chunk = ChunkNew(0)
    /\ other = ChunkNew(0)
    /\ out = NoOutput
    /\ density = {}
    /\ app = AppRunning

NextGen ==
    \/ init_generation
    \/ handle_generation
    \/ init_mesh
    \/ handle_mesh
    \/ despawn_chunks
    \/ regenerate_chunks
    \/ apply_deferred
    \/ TaskFinish
    \/ send_regenerate
    \/ set_noise

SpecGen == InitGen /\ [][NextGen]_vars

\* ------------------------------------------- Chunk::border, Chunk::mesh
\* the chunks that differ from a chunk of S in at most n cells of P, the
\* blocks of those cells taken out of K (IndexMut, as generate_chunk fills a
\* chunk)
RECURSIVE Edited(_, _, _, _)
Edited(S, P, K, n) ==
    IF n = 0 THEN S
    ELSE Edited({ [c EXCEPT ![p] = k] : c \in S, p \in P, k \in K }, P, K, n - 1)

\* per axis the cell on the lower face, one inner cell and the cell on the
\* upper face: Chunk::mesh treats the inner cells of an axis alike
ProbeCells == { p \in Cells : \A i \in 1..3 : p[i] \in {0, 1, Edge - 1} }

\* what generate_chunk starts from: all air, all stone
Fills == { ChunkNew(0), ChunkNew(1) }

\* chunk.border(d, &blocks), called once on the chunk
border_side ==
    /\ out.op = "none"
    /\ \E d \in 1..6 :
          out' = [NoOutput EXCEPT !.op = "border", !.d = d, !.border = border(chunk, d)]
    /\ UNCHANGED <<chunk, other, density>>
    /\ UNCHANGED worldVars

\* init_mesh from the loop over the directions on, and the task it spawns:
\* the borders of the neighbours are gathered and chunk.mesh(borders) is run
mesh_task ==
    /\ out.op = "none"
    /\ \E bs \in {Borders(other)} :
          out' = [NoOutput EXCEPT !.op = "mesh", !.borders = bs, !.quads = mesh(chunk, bs)]
    /\ UNCHANGED <<chunk, other, density>>
    /\ UNCHANGED worldVars

\* Chunk::border on a chunk that is all air or all stone but for a few cells
\* of air, stone or the see-through block
InitBorder ==
    /\ translation = StartTranslation
    /\ view_distance = 1
    /\ chunks = NoChunks
    /\ ents = [e \in {} |-> 0]
    /\ nextEnt = 1
    /\ cmds = NoCommands
    /\ pool = [queue |-> <<>>, done |-> {}]
    /\ events = 0
    /\ ran = {}
    /\ fired = FALSE
    /\ regenerates = 0
    /\ meshLog = {}
    /\ moves = 0
    /\ ticks = 0
    /\ frames = MaxTicks
    /\ noise = WorldGenDefault
    /\ regenNoise = noise
    /\ genLog = {}
    /\ chunk \in Edited(Fills, Cells, {0, 1, 2}, MaxEdits)
    /\ other = ChunkNew(0)
    /\ out = NoOutput
    /\ density = {}
    /\ app = AppRunning

NextBorder == border_side

SpecBorder == InitBorder /\ [][NextBorder]_vars

\* Chunk::mesh on a chunk with a few probe cells of any block among uniform
\* neighbours, or on a uniform chunk among neighbours with a few cells of the
\* other opacity
InitMesh ==
    /\ translation = StartTranslation
    /\ view_distance = 1
    /\ chunks = NoChunks
    /\ ents = [e \in {} |-> 0]
    /\ nextEnt = 1
    /\ cmds = NoCommands
    /\ pool = [queue |-> <<>>, done |-> {}]
    /\ events = 0
    /\ ran = {}
    /\ fired = FALSE
    /\ regenerates = 0
    /\ meshLog = {}
    /\ moves = 0
    /\ ticks = 0
    /\ frames = MaxTicks
    /\ noise = WorldGenDefault
    /\ regenNoise = noise
    /\ genLog = {}
    /\ \/ chunk \in Edited(Fills, ProbeCells, BlockIds, MaxEdits) /\ other \in Fills
       \/ chunk \in Fills /\ other \in Edited(Fills, Cells, {0, 1}, MaxEdits)
    /\ out = NoOutput
    /\ density = {}
    /\ app = AppRunning

NextMesh == mesh_task

SpecMesh == InitMesh /\ [][NextMesh]_vars

\* the eight corner cells of a chunk, each on three of its faces
CornerCells == { p \in Cells : \A i \in 1..3 : p[i] \in {0, Edge - 1} }

\* Chunk::mesh on a chunk with a few corner cells of any block, among
\* uniform neighbours
InitSwap ==
    /\ translation = StartTranslation
    /\ view_distance = 1
    /\ chunks = NoChunks
    /\ ents = [e \in {} |-> 0]
    /\ nextEnt = 1
    /\ cmds = NoCommands
    /\ pool = [queue |-> <<>>, done |-> {}]
    /\ events = 0
    /\ ran = {}
    /\ fired = FALSE
    /\ regenerates = 0
    /\ meshLog = {}
    /\ moves = 0
    /\ ticks = 0
    /\ frames = MaxTicks
    /\ noise = WorldGenDefault
    /\ regenNoise = noise
    /\ genLog = {}
    /\ chunk \in Edited(Fills, CornerCells, BlockIds, MaxEdits)
    /\ other \in Fills
    /\ out = NoOutput
    /\ density = {}
    /\ app = AppRunning

NextSwap == mesh_task

SpecSwap == InitSwap /\ [][NextSwap]_vars

\* ------------------------------------------------------- generate_chunk
\* the settings the sliders of the "World Generation" window are moved
\* between: the height range, or the dirt depth and the dirt range
DirtRanges == { WorldGenDefault.dirt_range, <<1, Edge + 2>> }

TerrainGens ==
    WorldGens
    \cup { [WorldGenDefault EXCEPT !.height = <<-100, 100>>] }
    \cup { [WorldGenDefault EXCEPT !.dirt_height = n, !.dirt_range = r] :
              n \in 1..MaxDirtHeight, r \in DirtRanges }

\* the task init_generation spawns: generate_chunk(pos, &noise), run once
generate_task ==
    /\ out.op = "none"
    /\ \E y \in (-MaxChunkY)..MaxChunkY :
          \E data \in { generate_chunk(<<0, y, 0>>, noise) } :
             /\ out' = [op |-> "generate", pos |-> <<0, y, 0>>, data |-> data]
             /\ chunk' = IF data.uniform THEN ChunkNew(data.block)
                         ELSE Fill(<<0, y, 0>>, noise)
    /\ UNCHANGED <<other, density>>
    /\ UNCHANGED worldVars

\* generate_chunk under any of the settings and any density field
InitTerrain ==
    /\ translation = StartTranslation
    /\ view_distance = 1
    /\ chunks = NoChunks
    /\ ents = [e \in {} |-> 0]
    /\ nextEnt = 1
    /\ cmds = NoCommands
    /\ pool = [queue |-> <<>>, done |-> {}]
    /\ events = 0
    /\ ran = {}
    /\ fired = FALSE
    /\ regenerates = 0
    /\ meshLog = {}
    /\ moves = 0
    /\ ticks = 0
    /\ frames = MaxTicks
    /\ noise \in TerrainGens
    /\ regenNoise = noise
    /\ genLog = {}
    /\ chunk = ChunkNew(0)
    /\ other = ChunkNew(0)
    /\ out = NoOutput
    /\ density \in SUBSET (0..(Period - 1))
    /\ app = AppRunning

NextTerrain == generate_task

SpecTerrain == InitTerrain /\ [][NextTerrain]_vars

\* ----------------------------------------------------------------- main.rs
\* what assets/textures and assets/blocks may hold: everything, or all but
\* the grass texture, or all but the stone block
TextureFolders == { TextureNames, TextureNames \ {"grass"} }
BlockFolders == { BlockFiles, { f \in BlockFiles : f.id # 1 } }

\* the asset server has loaded one more image of the folder
image_loaded ==
    /\ app.panic = "none"
    /\ \E t \in app.images : app' = [app EXCEPT !.images = @ \ {t}]
    /\ UNCHANGED <<translation, view_distance, chunks, ents, nextEnt, cmds, pool,
                   events, ran, fired, regenerates, meshLog, moves, ticks, frames,
                   noise, regenNoise, genLog>>
    /\ UNCHANGED voxelVars

\* the group is handed on only once nothing of it is pending
GroupLoaded_Started(pending) == TRUE

\* asset_server.get_group_load_state(..) is LoadState::Loaded
GroupLoaded(pending) == pending = {}

\* check_textures sets AppState::LoadBlocks; on the way build_textures
\* (on_exit) puts every image of the folder into the TextureMap and
\* load_blocks (on_enter) starts loading the block files
check_textures ==
    /\ app.panic = "none"
    /\ app.state = "LoadTextures"
    /\ GroupLoaded(app.images)
    /\ app' = [app EXCEPT !.state = "LoadBlocks", !.atlas = app.textures,
                          !.files = app.blocks]
    /\ UNCHANGED <<translation, view_distance, chunks, ents, nextEnt, cmds, pool,
                   events, ran, fired, regenerates, meshLog, moves, ticks, frames,
                   noise, regenNoise, genLog>>
    /\ UNCHANGED voxelVars

\* BlockLoader::load of one block file: texture_map.id(name) indexes the
\* mapping and panics on a name that is no key of it; otherwise the block is
\* inserted into BLOCKS and the asset counts as loaded
block_loaded ==
    /\ app.panic = "none"
    /\ \E f \in app.files :
          app' = IF f.textures \subseteq app.atlas
                 THEN [app EXCEPT !.files = @ \ {f}, !.registry = @ \cup {f.id}]
                 ELSE [app EXCEPT !.panic = "texture"]
    /\ UNCHANGED <<translation, view_distance, chunks, ents, nextEnt, cmds, pool,
                   events, ran, fired, regenerates, meshLog, moves, ticks, frames,
                   noise, regenNoise, genLog>>
    /\ UNCHANGED voxelVars

\* check_blocks sets AppState::Running
check_blocks ==
    /\ app.panic = "none"
    /\ app.state = "LoadBlocks"
    /\ GroupLoaded(app.files)
    /\ app' = [app EXCEPT !.state = "Running"]
    /\ UNCHANGED <<translation, view_distance, chunks, ents, nextEnt, cmds, pool,
                   events, ran, fired, regenerates, meshLog, moves, ticks, frames,
                   noise, regenNoise, genLog>>
    /\ UNCHANGED voxelVars

\* the application from its start: load_textures has asked for the folder
InitStartup ==
    /\ translation = LiveTranslation
    /\ view_distance = 1
    /\ chunks = NoChunks
    /\ ents = [e \in {} |-> 0]
    /\ nextEnt = 1
    /\ cmds = NoCommands
    /\ pool = [queue |-> <<>>, done |-> {}]
    /\ events = 0
    /\ ran = {}
    /\ fired = FALSE
    /\ regenerates = 0
    /\ meshLog = {}
    /\ moves = 0
    /\ ticks = 0
    /\ frames = MaxTicks
    /\ noise = WorldGenDefault
    /\ regenNoise = noise
    /\ genLog = {}
    /\ chunk = ChunkNew(0)
    /\ other = ChunkNew(0)
    /\ out = NoOutput
    /\ density \in { {}, 0..(Period - 1) }
    /\ \E ts \in TextureFolders : \E bs \in BlockFolders :
          app = [state |-> "LoadTextures", textures |-> ts, blocks |-> bs,
                 images |-> ts, atlas |-> {}, files |-> {}, registry |-> {},
                 panic |-> "none"]

NextStartup ==
    \/ image_loaded
    \/ check_textures
    \/ block_loaded
    \/ check_blocks
    \/ init_generation
    \/ handle_generation
    \/ init_mesh
    \/ handle_mesh
    \/ despawn_chunks
    \/ regenerate_chunks
    \/ apply_deferred
    \/ TaskFinish

SpecStartup == InitStartup /\ [][NextStartup]_vars

\* ------------------------------------------- Index, IndexMut for Chunk
\* Chunk::new: the array blocks itself, [[[BlockId; SIZE]; SIZE]; SIZE]
ArrayNew(block) ==
    [x \in 0..(Edge - 1) |-> [z \in 0..(Edge - 1) |-> [y \in 0..(Edge - 1) |-> block]]]

\* indexing an array past its end panics, and nothing is read or written
Panic == [panic |-> TRUE]

\* the access returns
Done(v) == [panic |-> FALSE, value |-> v]

\* Index::index: &self.blocks[index.x][index.z][index.y]
index(blocks, p) ==
    IF p[1] \notin DOMAIN blocks THEN Panic
    ELSE IF p[3] \notin DOMAIN blocks[p[1]] THEN Panic
    ELSE IF p[2] \notin DOMAIN blocks[p[1]][p[3]] THEN Panic
    ELSE Done(blocks[p[1]][p[3]][p[2]])

\* the block is written to [x][y][z], not to where index reads it
index_mut_Swapped(blocks, p, b) ==
    IF p[1] \notin DOMAIN blocks THEN Panic
    ELSE IF p[2] \notin DOMAIN blocks[p[1]] THEN Panic
    ELSE IF p[3] \notin DOMAIN blocks[p[1]][p[2]] THEN Panic
    ELSE Done([blocks EXCEPT ![p[1]][p[2]][p[3]] = b])

\* IndexMut::index_mut and the assignment through it:
\* self.blocks[index.x][index.z][index.y] = b
index_mut(blocks, p, b) ==
    IF p[1] \notin DOMAIN blocks THEN Panic
    ELSE IF p[3] \notin DOMAIN blocks[p[1]] THEN Panic
    ELSE IF p[2] \notin DOMAIN blocks[p[1]][p[3]] THEN Panic
    ELSE Done([blocks EXCEPT ![p[1]][p[3]][p[2]] = b])

\* the cells that are accessed: per axis the first cell, the last cell and
\* the first coordinate past the end
AccessCells == {0, Edge - 1, Edge} \X {0, Edge - 1, Edge} \X {0, Edge - 1, Edge}

\* chunk[p] is read
read_cell ==
    /\ out.n < MaxWrites
    /\ \E p \in AccessCells :
          out' = [op |-> "get", n |-> out.n + 1, cell |-> p, block |-> 0,
                  res |-> index(chunk, p), before |-> chunk]
    /\ UNCHANGED <<chunk, other, density>>
    /\ UNCHANGED worldVars

\* chunk[p] = b
write_cell ==
    /\ out.n < MaxWrites
    /\ \E p \in AccessCells : \E b \in {0, 1} :
          \E res \in { index_mut(chunk, p, b) } :
             /\ out' = [op |-> "set", n |-> out.n + 1, cell |-> p, block |-> b,
                        res |-> [panic |-> res.panic], before |-> chunk]
             /\ chunk' = IF res.panic THEN chunk ELSE res.value
    /\ UNCHANGED <<other, density>>
    /\ UNCHANGED worldVars

\* a new chunk of air or of stone; the variable chunk holds the array blocks
InitIndex ==
    /\ translation = StartTranslation
    /\ view_distance = 1
    /\ chunks = NoChunks
    /\ ents = [e \in {} |-> 0]
    /\ nextEnt = 1
    /\ cmds = NoCommands
    /\ pool = [queue |-> <<>>, done |-> {}]
    /\ events = 0
    /\ ran = {}
    /\ fired = FALSE
    /\ regenerates = 0
    /\ meshLog = {}
    /\ moves = 0
    /\ ticks = 0
    /\ frames = MaxTicks
    /\ noise = WorldGenDefault
    /\ regenNoise = noise
    /\ genLog = {}
    /\ \E b \in {0, 1} : chunk = ArrayNew(b)
    /\ other = ChunkNew(0)
    /\ out = [op |-> "none", n |-> 0]
    /\ density = {}
    /\ app = AppRunning

NextIndex == read_cell \/ write_cell

SpecIndex == InitIndex /\ [][NextIndex]_vars

\* ------------------------------------------------ Quat::from(Direction)
\* -v
Neg(v) == <<-v[1], -v[2], -v[3]>>

\* -Vec3::Z and Vec3::Z
Back == <<0, 0, -1>>
Forward == <<0, 0, 1>>

\* the vectors that are rotated: the axes, and the edges and corners of a cube
\* about its centre
Vectors == {-1, 0, 1} \X {-1, 0, 1} \X {-1, 0, 1}

\* Quat::from(d) * v for a direction d
rotation ==
    /\ out.op = "none"
    /\ \E d \in 1..6 :
          out' = [op |-> "rotate", d |-> d, v |-> out.v, res |-> Rotate(d, out.v)]
    /\ UNCHANGED <<chunk, other, density>>
    /\ UNCHANGED worldVars

InitRotate ==
    /\ translation = StartTranslation
    /\ view_distance = 1
    /\ chunks = NoChunks
    /\ ents = [e \in {} |-> 0]
    /\ nextEnt = 1
    /\ cmds = NoCommands
    /\ pool = [queue |-> <<>>, done |-> {}]
    /\ events = 0
    /\ ran = {}
    /\ fired = FALSE
    /\ regenerates = 0
    /\ meshLog = {}
    /\ moves = 0
    /\ ticks = 0
    /\ frames = MaxTicks
    /\ noise = WorldGenDefault
    /\ regenNoise = noise
    /\ genLog = {}
    /\ chunk = ChunkNew(0)
    /\ other = ChunkNew(0)
    /\ \E v \in Vectors : out = [op |-> "none", v |-> v]
    /\ density = {}
    /\ app = AppRunning

NextRotate == rotation

SpecRotate == InitRotate /\ [][NextRotate]_vars

\* -------------------------------------------------------------- Range3
\* Option<IVec3>
None == [some |-> FALSE]
Some(p) == [some |-> TRUE, value |-> p]

\* Range3::new: max = (to - from).abs().max(ONE), off = (to - from).min(from - to)
Range3New(from, to) ==
    [off |-> <<Min2(to[1] - from[1], from[1] - to[1]),
               Min2(to[2] - from[2], from[2] - to[2]),
               Min2(to[3] - from[3], from[3] - to[3])>>,
     max |-> <<Max2(Abs(to[1] - from[1]), 1),
               Max2(Abs(to[2] - from[2]), 1),
               Max2(Abs(to[3] - from[3]), 1)>>,
     i |-> 0]

\* Range3::ivec3
ivec3(r) ==
    LET p == <<r.i % r.max[2],
               (r.i \div r.max[2]) % r.max[1],
               (r.i \div r.max[2]) \div r.max[1]>>
    IN  IF p[3] < r.max[3] THEN Some(Add(p, r.off)) ELSE None

\* ExactSizeIterator::len
len(r) == r.max[1] * r.max[2] * r.max[3]

\* Iterator::count
count(r) == r.max[1] * r.max[2] * r.max[3]

\* the corners a range starts at, and its extent along the axes
RangeFroms == {-1, 0} \X {-1, 0} \X {-1, 0}
RangeSpans == (1..MaxSpan) \X (1..MaxSpan) \X (1..MaxSpan)

\* Range3::new(from, to), and count and len of the range
range_new ==
    /\ out.op = "none"
    /\ \E r \in { Range3New(out.from, out.to) } :
          out' = [op |-> "new", from |-> out.from, to |-> out.to, range |-> r,
                  count |-> count(r), len |-> len(r), calls |-> 0, item |-> None]
    /\ UNCHANGED <<chunk, other, density>>
    /\ UNCHANGED worldVars

\* Iterator::next: self.i += 1; self.ivec3(). The range is iterated until it
\* ends.
range_next ==
    /\ out.op = "new" \/ (out.op = "next" /\ out.item.some)
    /\ \E r \in { [out.range EXCEPT !.i = @ + 1] } :
          out' = [out EXCEPT !.op = "next", !.range = r, !.calls = @ + 1,
                             !.item = ivec3(r)]
    /\ UNCHANGED <<chunk, other, density>>
    /\ UNCHANGED worldVars

InitRange ==
    /\ translation = StartTranslation
    /\ view_distance = 1
    /\ chunks = NoChunks
    /\ ents = [e \in {} |-> 0]
    /\ nextEnt = 1
    /\ cmds = NoCommands
    /\ pool = [queue |-> <<>>, done |-> {}]
    /\ events = 0
    /\ ran = {}
    /\ fired = FALSE
    /\ regenerates = 0
    /\ meshLog = {}
    /\ moves = 0
    /\ ticks = 0
    /\ frames = MaxTicks
    /\ noise = WorldGenDefault
    /\ regenNoise = noise
    /\ genLog = {}
    /\ chunk = ChunkNew(0)
    /\ other = ChunkNew(0)
    /\ \E from \in RangeFroms : \E span \in RangeSpans :
          out = [op |-> "none", from |-> from, to |-> Add(from, span)]
    /\ density = {}
    /\ app = AppRunning

NextRange == range_new \/ range_next

SpecRange == InitRange /\ [][NextRange]_vars

\* ------------------------------------------------ the buffers of a mesh
\* positions, normals, uvs and indices as Chunk::mesh and Block::mesh create
\* them
NoBuffers == [positions |-> <<>>, normals |-> <<>>, uvs |-> <<>>, indices |-> <<>>]

\* the first index of a quad is taken as the number of quads before it
FaceInto_Unscaled(buf, cube, k, pos, d) ==
    LET j == Len(buf.indices) \div 6
    IN [positions |-> buf.positions \o [i \in 1..4 |-> <<pos, k, d, i>>],
        normals   |-> buf.normals \o [i \in 1..4 |-> DirectionAll[d]],
        uvs       |-> buf.uvs \o [i \in 1..4 |-> <<cube.faces[d], i>>],
        indices   |-> buf.indices \o <<j, j + 1, j + 2, j, j + 2, j + 3>>]

\* Cube::mesh, the body of the loop for a face that is not left out: the four
\* corners r_p of the face turned towards d, four times the normal, the four
\* corners r_uvs of the texture, and two triangles
FaceInto(buf, cube, k, pos, d) ==
    LET j == (Len(buf.indices) \div 6) * 4
    IN [positions |-> buf.positions \o [i \in 1..4 |-> <<pos, k, d, i>>],
        normals   |-> buf.normals \o [i \in 1..4 |-> DirectionAll[d]],
        uvs       |-> buf.uvs \o [i \in 1..4 |-> <<cube.faces[d], i>>],
        indices   |-> buf.indices \o <<j, j + 1, j + 2, j, j + 2, j + 3>>]

\* Cube::mesh from direction d on (each step is made on the buffers as they
\* are, one after the other: a set of one element binds them)
RECURSIVE CubeInto(_, _, _, _, _, _)
CubeInto(buf, cube, k, pos, occ, d) ==
    IF d > 6 THEN buf
    ELSE CHOOSE r \in { CubeInto(next, cube, k, pos, occ, d + 1) :
                           next \in { IF cube.faces[d] = d /\ occ[d] THEN buf
                                      ELSE FaceInto(buf, cube, k, pos, d) } } : TRUE

\* `for cube in &block.cubes`, from cube k on
RECURSIVE CubesInto(_, _, _, _, _)
CubesInto(buf, cubes, k, pos, occ) ==
    IF k > Len(cubes) THEN buf
    ELSE CHOOSE r \in { CubesInto(next, cubes, k + 1, pos, occ) :
                           next \in { CubeInto(buf, cubes[k], k, pos, occ, 1) } } : TRUE

\* Chunk::mesh, the loop over the cells order[lo..hi]
RECURSIVE MeshInto(_, _, _, _, _, _)
MeshInto(buf, c, neighbors, order, lo, hi) ==
    IF lo > hi THEN buf
    ELSE IF lo = hi
    THEN CHOOSE r \in { IF Enclosed(occ) THEN buf
                         ELSE CubesInto(buf, Blocks[c[order[lo]] + 1].cubes, 1,
                                        order[lo], occ) :
                           occ \in { Occupied6(c, neighbors, order[lo]) } } : TRUE
    ELSE CHOOSE r \in { MeshInto(left, c, neighbors, order, ((lo + hi) \div 2) + 1, hi) :
                           left \in { MeshInto(buf, c, neighbors, order, lo,
                                               (lo + hi) \div 2) } } : TRUE

\* for_uvec3(UVec3::ZERO, Chunk::MAX, ..): the cells in the order of three
\* nested loops, y or x innermost
CellOrders ==
    { [k \in 1..(Edge * Edge * Edge) |->
          <<(k - 1) \div (Edge * Edge), (k - 1) % Edge, ((k - 1) \div Edge) % Edge>>],
      [k \in 1..(Edge * Edge * Edge) |->
          <<(k - 1) % Edge, ((k - 1) \div Edge) % Edge, (k - 1) \div (Edge * Edge)>>] }

\* chunk.mesh(borders), with its buffers
chunk_mesh ==
    /\ out.op = "none"
    /\ \E bs \in {Borders(other)} : \E order \in CellOrders :
          out' = [op |-> "mesh", borders |-> bs,
                  buffers |-> MeshInto(NoBuffers, chunk, bs, order, 1, Len(order)),
                  quads |-> Cardinality(mesh(chunk, bs))]
    /\ UNCHANGED <<chunk, other, density>>
    /\ UNCHANGED worldVars

\* Block::mesh: the cubes of a block at the origin, no face left out for a
\* neighbour
block_mesh ==
    /\ out.op = "none"
    /\ \E b \in BlockIds :
          out' = [op |-> "block", borders |-> <<>>,
                  buffers |-> CubesInto(NoBuffers, Blocks[b + 1].cubes, 1, <<0, 0, 0>>,
                                        [d \in 1..6 |-> FALSE]),
                  quads |-> 6 * Len(Blocks[b + 1].cubes)]
    /\ UNCHANGED <<chunk, other, density>>
    /\ UNCHANGED worldVars

\* a chunk that is all air or all stone but for a few corner cells, among
\* neighbours that are all air or all stone
InitBuffers ==
    /\ translation = StartTranslation
    /\ view_distance = 1
    /\ chunks = NoChunks
    /\ ents = [e \in {} |-> 0]
    /\ nextEnt = 1
    /\ cmds = NoCommands
    /\ pool = [queue |-> <<>>, done |-> {}]
    /\ events = 0
    /\ ran = {}
    /\ fired = FALSE
    /\ regenerates = 0
    /\ meshLog = {}
    /\ moves = 0
    /\ ticks = 0
    /\ frames = MaxTicks
    /\ noise = WorldGenDefault
    /\ regenNoise = noise
    /\ genLog = {}
    /\ chunk \in Edited(Fills, CornerCells, BlockIds, MaxEdits)
    /\ other \in Fills
    /\ out = NoOutput
    /\ density = {}
    /\ app = AppRunning


NextBuffers == chunk_mesh \/ block_mesh

SpecBuffers == InitBuffers /\ [][NextBuffers]_vars

\* -------------------------------------------------- VoxelWorld::chunk_pos
\* points around the corners world_pos(c) of the chunks -1, 0, 1 and 2: on a
\* corner, one cell off it, and in the middle of a chunk
Points ==
    LET xs == { k * SIZE + o : k \in -1..2, o \in {-1, 0, 1, SIZE \div 2} }
    IN xs \X xs \X {-SIZE, -1, 0, SIZE}

\* VoxelWorld::chunk_pos(p), as every system of world.rs calls it on the
\* translation of the player
locate ==
    /\ out.op = "none"
    /\ out' = [op |-> "chunk_pos", p |-> out.p, c |-> chunk_pos(out.p)]
    /\ UNCHANGED <<chunk, other, density>>
    /\ UNCHANGED worldVars

InitLocate ==
    /\ translation = StartTranslation
    /\ view_distance = 1
    /\ chunks = NoChunks
    /\ ents = [e \in {} |-> 0]
    /\ nextEnt = 1
    /\ cmds = NoCommands
    /\ pool = [queue |-> <<>>, done |-> {}]
    /\ events = 0
    /\ ran = {}
    /\ fired = FALSE
    /\ regenerates = 0
    /\ meshLog = {}
    /\ moves = 0
    /\ ticks = 0
    /\ frames = MaxTicks
    /\ noise = WorldGenDefault
    /\ regenNoise = noise
    /\ genLog = {}
    /\ chunk = ChunkNew(0)
    /\ other = ChunkNew(0)
    /\ \E p \in Points : out = [op |-> "none", p |-> p]
    /\ density = {}
    /\ app = AppRunning

NextLocate == locate

SpecLocate == InitLocate /\ [][NextLocate]_vars

\* ================================================================= claims
\* the entity the map holds for p exists and carries ChunkData
NeighborReady(p) ==
    /\ p \in DOMAIN chunks
    /\ chunks[p] \in DOMAIN ents
    /\ ents[chunks[p]].data

\* some entity at p carries ChunkData in E
GeneratedAt(E, p) == \E n \in DOMAIN E : E[n].pos = p /\ E[n].data

Step(sys) == sys \in ran' /\ sys \notin ran

\* C1: whenever init_mesh spawns a meshing task for an entity, each of the 6
\* axis-neighbour coordinates has a map entry whose entity holds ChunkData at
\* that moment.
C1_MeshAfterNeighbors ==
    [][\A r \in meshLog' \ meshLog :
          \A p \in Neighbors(r.pos) : NeighborReady(p)]_vars

\* init_mesh spawned a meshing task in the third frame or later
C1_Witness ==
    \E r \in meshLog : r.tick >= 2 /\ "init_mesh" \in ran /\ r.tick = ticks

\* C2: an entity becomes RequiresMesh only when an entity holding ChunkData
\* stands (before or after the commands of the frame) at each of its 6
\* neighbour coordinates.
C2_Claim ==
    [][\A e \in DOMAIN ents' :
          (ents'[e].req /\ ~(e \in DOMAIN ents /\ ents[e].req))
          => \A p \in Neighbors(ents'[e].pos) :
                GeneratedAt(ents, p) \/ GeneratedAt(ents', p)]_vars

\* C3: at the end of every frame the counter of an entity with
\* MissingNeighbors is the number of its neighbour coordinates without a
\* generated entry.
C3_Claim ==
    ran = {} =>
        \A e \in DOMAIN ents :
            ents[e].mn =>
                ents[e].missing =
                    Cardinality({ p \in Neighbors(ents[e].pos) : ~NeighborReady(p) })

C5_Claim ==
    \A r1, r2 \in meshLog :
        (r1.pos = r2.pos /\ r1.epoch = r2.epoch) => r1 = r2

\* C5 as amended: an entity gets at most one meshing task in its lifetime.
C5_OncePerEntity == \A r \in meshLog : r.nth = 1

\* init_mesh ran again while an entity it meshed earlier is alive
C5_Witness ==
    /\ "init_mesh" \in ran
    /\ \E r \in meshLog :
          /\ r.tick < ticks
          /\ r.ent \in DOMAIN ents
          /\ ents[r.ent].meshing \/ ents[r.ent].mesh

\* the cube of coordinates within Chebyshev distance d of c
Cube(c, d) ==
    { Add(c, <<x, y, z>>) : x \in (-d)..d, y \in (-d)..d, z \in (-d)..d }

\* the generation tasks of entity e in the pool
GenTasks(p, e) ==
    Cardinality({ i \in 1..Len(p.queue) : p.queue[i] = <<"gen", e>> })
        + (IF <<"gen", e>> \in p.done THEN 1 ELSE 0)

Despawned == { c.e : c \in SeqRange(cmds'["despawn_chunks"]) }

C9_Claim ==
    [][/\ (fired' /\ ~fired) => chunks' = NoChunks
       /\ (fired /\ ~fired') =>
             /\ DOMAIN ents' = {}
             /\ pool' = [queue |-> <<>>, done |-> {}]]_vars

\* the map does not hold e for e's coordinate
Stale(e) == ~(ents[e].pos \in DOMAIN chunks /\ chunks[ents[e].pos] = e)

\* C10: handle_generation and handle_mesh queue nothing for an entity whose
\* map entry was removed.
C10_Claim ==
    [][\A sys \in {"handle_generation", "handle_mesh"} :
          Step(sys) =>
              \A c \in SeqRange(cmds'[sys]) :
                  c.op \in {"generated", "visible"} => ~Stale(c.e)]_vars
\* an entity with the mesh stands at p
VisibleAt(p) == \E e \in DOMAIN ents : ents[e].pos = p /\ ents[e].mesh

C12_Claim == \A r \in genLog : r.gen = r.regen

C13_Claim ==
    [][Step("despawn_chunks") =>
          \A p \in DOMAIN chunks \ DOMAIN chunks' :
             \E e \in DOMAIN ents : Evicted(e) /\ chunks[p] = e]_vars

\* C15: init_mesh spawns a meshing task only for an entity whose Chebyshev
\* distance from the observer's chunk is at most view_distance in that frame,
\* and an entity is Meshing or Visible only if such a task was spawned for it:
\* what never comes within view_distance is never meshed and never Visible.
C15_WithinView ==
    [][/\ Step("init_mesh") =>
             \A r \in meshLog' \ meshLog :
                distance(Sub(center, r.pos)) <= view_distance
       /\ \A e \in DOMAIN ents' :
             (ents'[e].meshing \/ ents'[e].mesh) => \E r \in meshLog' : r.ent = e]_vars

\* init_mesh has run and left alone an entity with RequiresMesh whose six
\* neighbours carry ChunkData but which lies outside the view distance; a
\* task was spawned for another entity while that one was within it
C15_Witness ==
    /\ "init_mesh" \in ran
    /\ meshLog # {}
    /\ \E e \in DOMAIN ents :
          /\ ents[e].req
          /\ distance(Sub(center, ents[e].pos)) > view_distance
          /\ \A p \in Neighbors(ents[e].pos) : NeighborReady(p)
          /\ \A r \in meshLog : r.ent # e

\* the entities handler sys polls whose task has not returned yet
Outstanding(sys) ==
    { e \in DOMAIN ents :
         /\ IF sys = "handle_generation" THEN ents[e].gen ELSE ents[e].meshing
         /\ <<IF sys = "handle_generation" THEN "gen" ELSE "mesh", e>>
               \in SeqRange(pool.queue) }

\* the entities handler sys polls
Polled(sys) ==
    { e \in DOMAIN ents :
         IF sys = "handle_generation" THEN ents[e].gen ELSE ents[e].meshing }

\* C16: a poll of a task that has not returned changes nothing: the entity
\* keeps its components and its task, no command is queued for it, the map is
\* untouched, and a MissingNeighbors counter moves only for neighbours whose
\* task did return; when no polled task has returned the handler changes
\* nothing at all, and it runs to its end either way.
C16_NoWait ==
    [][\A sys \in {"handle_generation", "handle_mesh"} :
          Step(sys) =>
             \E idle \in {Outstanding(sys)} :
             \E back \in {{ ents[e].pos : e \in Polled(sys) \ idle }} :
                /\ chunks' = chunks
                /\ \A e \in idle :
                      /\ ents'[e] = ents[e]
                      /\ \E t \in SeqRange(pool'.queue) : t[2] = e
                      /\ \A c \in SeqRange(cmds'[sys]) : c.e # e
                /\ \A n \in DOMAIN ents :
                      Neighbors(ents[n].pos) \cap back = {} => ents'[n] = ents[n]
                /\ back = {} =>
                      /\ ents' = ents
                      /\ cmds' = cmds
                      /\ pool' = pool]_vars

\* all six systems of a frame have run while generation tasks are still
\* running, and handle_generation handled a task that had returned
C16_Witness ==
    /\ "regenerate_chunks" \in ran
    /\ Outstanding("handle_generation") # {}
    /\ cmds["handle_generation"] # <<>>

\* the cells of the face of a chunk that looks in direction d
FaceCells(d) ==
    { p \in Cells :
         p[((d - 1) % 3) + 1] = IF d <= 3 THEN 0 ELSE Edge - 1 }

\* C17: in the border a chunk returns for direction d, bit (x, y) is set
\* exactly if the block in the cell from_surface(d, (x, y)) is opaque; that
\* cell lies on the d-face, every cell p of the face is the cell of the bit
\* to_surface(d, p), and so there are as many set bits as opaque face cells.
C17_Border ==
    out.op = "border" =>
        /\ \A v \in Surface :
              /\ from_surface(out.d, v) \in FaceCells(out.d)
              /\ to_surface(out.d, from_surface(out.d, v)) = v
              /\ BorderOccupied(out.border, v)
                    <=> occupied(chunk, from_surface(out.d, v))
        /\ \A p \in FaceCells(out.d) :
              BorderOccupied(out.border, to_surface(out.d, p)) <=> occupied(chunk, p)
        /\ Cardinality({ v \in Surface : BorderOccupied(out.border, v) })
              = Cardinality({ p \in FaceCells(out.d) : occupied(chunk, p) })

\* the border of a face that has exactly one opaque cell, away from the
\* diagonals of the face, in a chunk that is air otherwise
C17_Witness ==
    /\ out.op = "border"
    /\ \E p \in FaceCells(out.d) :
          /\ { q \in Cells : occupied(chunk, q) } = {p}
          /\ { v \in Surface : BorderOccupied(out.border, v) } = {to_surface(out.d, p)}
          /\ LET v == to_surface(out.d, p)
             IN v[1] # v[2] /\ v[1] + v[2] # Edge - 1

\* C18: for every direction d and every cell c on the d-face of a chunk, the
\* entry d of the array occupied that Chunk::mesh computes for c from the
\* borders init_mesh gathered is the opacity of the cell (c + d) mod Edge of
\* the neighbour in direction d.
C18_AcrossFace ==
    out.op = "mesh" =>
        \A d \in 1..6 : \A c \in FaceCells(d) :
            Occupied6(chunk, out.borders, c)[d]
               = occupied(other, Wrap(Add(c, DirectionAll[d])))

\* the neighbour has one opaque cell, on a face and away from the diagonals
\* of the face, and the cell across that face sees it
C18_Witness ==
    /\ out.op = "mesh"
    /\ \E d \in 1..6 : \E c \in FaceCells(d) :
          LET q == Wrap(Add(c, DirectionAll[d]))
              v == to_surface(inverse(d), q)
          IN /\ { p \in Cells : occupied(other, p) } = {q}
             /\ Occupied6(chunk, out.borders, c)[d]
             /\ v[1] # v[2] /\ v[1] + v[2] # Edge - 1

\* C19: the mesh has no quad for a cell all six neighbours of which are
\* opaque, a neighbour inside the chunk by the opaque flag of its block and
\* one across a face by the bit of the border of that side.
C19_Enclosed ==
    out.op = "mesh" =>
        \A pos \in Cells :
            (\A d \in 1..6 :
                LET p == Add(pos, DirectionAll[d])
                IN IF InBounds(p) THEN Blocks[chunk[p] + 1].opaque
                   ELSE BorderOccupied(out.borders[d], to_surface(inverse(d), Wrap(p))))
            => \A q \in out.quads : q.pos # pos

\* a block whose faces are never culled sits in a cell on the NegX face, its
\* five neighbours in the chunk and the one across the face are opaque, and
\* the quads of the mesh are the five of the stone cells that look at it
C19_Witness ==
    /\ out.op = "mesh"
    /\ \E pos \in Cells :
          /\ chunk[pos] = 2
          /\ ~InBounds(Add(pos, DirectionAll[1]))
          /\ Enclosed(Occupied6(chunk, out.borders, pos))
          /\ out.quads = { [pos |-> Add(pos, DirectionAll[d]), cube |-> 1,
                            d |-> inverse(d)] : d \in 2..6 }

\* C20: for every face of every cube of the block in a cell, a face with cull
\* direction d has no quad when the neighbour in direction d is opaque, and a
\* face without cull direction has its quad whenever the cell is not enclosed.
C20_Claim ==
    out.op = "mesh" =>
        \A pos \in Cells :
            LET occ == Occupied6(chunk, out.borders, pos)
                cubes == Blocks[chunk[pos] + 1].cubes
            IN \A k \in 1..Len(cubes) : \A i \in 1..6 :
                  LET cull == cubes[k].faces[i]
                      quad == [pos |-> pos, cube |-> k, d |-> i]
                  IN /\ (cull # NoCull /\ occ[cull]) => quad \notin out.quads
                     /\ (cull = NoCull /\ ~Enclosed(occ)) => quad \in out.quads

\* the neighbour of the cell pos of the chunk in direction d, a cell of the
\* chunk itself or of the chunk next to it, holds an opaque block
NeighborOpaque(pos, d) ==
    LET p == Add(pos, DirectionAll[d])
    IN IF InBounds(p) THEN Blocks[chunk[p] + 1].opaque
       ELSE Blocks[other[Wrap(p)] + 1].opaque

\* C21, as stated: for every cell, every cube of its block and every face
\* direction d, the mesh has no quad for that face if the neighbour cell in
\* direction d is opaque.
C21_Claim ==
    out.op = "mesh" =>
        \A pos \in Cells : \A k \in 1..Len(Blocks[chunk[pos] + 1].cubes) :
            \A d \in 1..6 :
                NeighborOpaque(pos, d)
                    => [pos |-> pos, cube |-> k, d |-> d] \notin out.quads

\* C21, amended: for every cell, every cube of its block and every face
\* direction d whose face names d itself as its cull direction, the mesh has
\* no quad for that face if the neighbour cell in direction d is opaque,
\* whichever opaque block the neighbour holds.
C21_OwnCull ==
    out.op = "mesh" =>
        \A pos \in Cells : \A k \in 1..Len(Blocks[chunk[pos] + 1].cubes) :
            \A d \in 1..6 :
                (Blocks[chunk[pos] + 1].cubes[k].faces[d] = d /\ NeighborOpaque(pos, d))
                    => [pos |-> pos, cube |-> k, d |-> d] \notin out.quads

\* a stone cell on a face of the chunk, air across that face, whose
\* neighbour inside the chunk is the two-cube block: the stone cell has its
\* quad towards the air and none towards the two-cube block
C21_Witness ==
    /\ out.op = "mesh"
    /\ \E pos \in Cells : \E d \in 1..6 :
          /\ chunk[pos] = 1
          /\ InBounds(Add(pos, DirectionAll[d]))
          /\ chunk[Add(pos, DirectionAll[d])] = 4
          /\ ~NeighborOpaque(pos, inverse(d))
          /\ [pos |-> pos, cube |-> 1, d |-> inverse(d)] \in out.quads
          /\ [pos |-> pos, cube |-> 1, d |-> d] \notin out.quads

\* the blocks with opaque = false
SeeThrough == { b \in BlockIds : ~Blocks[b + 1].opaque }

\* C22: a block with opaque = false never counts as occupied for the cell
\* next to it and never sets a bit of a border, and replacing such a block
\* by any other block with opaque = false (air included) leaves the quads of
\* every cell next to it as they are, for a neighbour inside the chunk and
\* for one across a face of the chunk.
C22_SeeThrough ==
    out.op = "mesh" =>
        /\ \A pos \in Cells : \A d \in 1..6 :
              ~NeighborOpaque(pos, d) => ~Occupied6(chunk, out.borders, pos)[d]
        /\ \A d \in 1..6 : \A p \in FaceCells(inverse(d)) :
              other[p] \in SeeThrough
                 => ~BorderOccupied(out.borders[d], to_surface(inverse(d), p))
        /\ \A p \in { p \in Cells : chunk[p] \in SeeThrough } :
              \A b \in SeeThrough \ {chunk[p]} :
                 \A swapped \in { [chunk EXCEPT ![p] = b] } :
                    \A q \in { Add(p, DirectionAll[d]) : d \in 1..6 } :
                       InBounds(q)
                          => CellMesh(swapped, out.borders, q)
                                = { x \in out.quads : x.pos = q }
        /\ \A d \in 1..6 :
              \A p \in { p \in FaceCells(inverse(d)) : other[p] \in SeeThrough } :
                 \A b \in SeeThrough \ {other[p]} :
                    \A side \in { border([other EXCEPT ![p] = b], inverse(d)) } :
                       \A q \in { Wrap(Add(p, DirectionAll[inverse(d)])) } :
                          CellMesh(chunk, [out.borders EXCEPT ![d] = side], q)
                             = { x \in out.quads : x.pos = q }

\* a stone chunk among chunks of air with one see-through block inside: the
\* stone cell next to that block has its quad towards it, and a stone cell
\* on a face of the chunk has its quad towards the air across the face
C22_Witness ==
    /\ out.op = "mesh"
    /\ \E p \in Cells : \E d \in 1..6 :
          LET q == Add(p, DirectionAll[d])
          IN /\ chunk[p] \in SeeThrough \ {0}
             /\ InBounds(q)
             /\ chunk[q] = 1
             /\ [pos |-> q, cube |-> 1, d |-> inverse(d)] \in out.quads
    /\ \E d \in 1..6 : \E c \in FaceCells(d) :
          /\ chunk[c] = 1
          /\ other[Wrap(Add(c, DirectionAll[d]))] = 0
          /\ [pos |-> c, cube |-> 1, d |-> d] \in out.quads

\* C23: in a chunk generate_chunk fills from the density field, a cell is air
\* exactly if it is not solid; a solid cell whose height is in the dirt range
\* is grass exactly if the cell above it is not solid, dirt exactly if the
\* cell above is solid and one of the cells 2..dirt_height above is not, and
\* stone otherwise; a solid cell outside the dirt range is stone.  The cells
\* above are world cells, beyond the top face of the chunk too.
C23_Layering ==
    (out.op = "generate" /\ ~out.data.uniform) =>
        \A p \in Cells :
            LET gp == WorldCell(out.pos, p)
                solid(i) == ((gp[1] + gp[2] + i + gp[3]) % Period) \in density
                inside == noise.dirt_range[1] <= gp[2] /\ gp[2] < noise.dirt_range[2]
                gap == \E i \in 2..noise.dirt_height : ~solid(i)
            IN /\ chunk[p] \in 0..3
               /\ (chunk[p] = 0) <=> ~solid(0)
               /\ (solid(0) /\ inside) =>
                     /\ (chunk[p] = 3) <=> ~solid(1)
                     /\ (chunk[p] = 2) <=> (solid(1) /\ gap)
                     /\ (chunk[p] = 1) <=> (solid(1) /\ ~gap)
               /\ (solid(0) /\ ~inside) => chunk[p] = 1

\* a generated chunk that holds air, stone, dirt and grass, with grass and
\* dirt in its top layer and stone outside the dirt range
C23_Witness ==
    /\ out.op = "generate"
    /\ ~out.data.uniform
    /\ { chunk[p] : p \in Cells } = 0..3
    /\ \E p, q \in { c \in Cells : c[2] = Edge - 1 } : chunk[p] = 3 /\ chunk[q] = 2
    /\ \E p \in Cells :
          /\ chunk[p] = 1
          /\ ~InDirtRange(noise, WorldCell(out.pos, p)[2])
          /\ ~Solid(Add(WorldCell(out.pos, p), <<0, 1, 0>>))

\* C24: generate_chunk returns Chunk::new(air), without sampling the noise,
\* for every chunk whose cells all lie above height.end, and
\* Chunk::new(stone), without sampling the noise, for every chunk whose cells
\* all lie below height.start - 1.
C24_Claim ==
    out.op = "generate" =>
        /\ out.pos[2] * SIZE > noise.height[2] => out.data = Uniform(0)
        /\ out.pos[2] * SIZE + (SIZE - 1) < noise.height[1] - 1 => out.data = Uniform(1)

\* C25: a generation or meshing task is spawned only in AppState::Running and
\* with every image and every block file of the two folders loaded, BLOCKS
\* holding the block of every file; and once a task was spawned BLOCKS is not
\* written again.
C25_RegistryFirst ==
    [][ (genLog' # {} \/ meshLog' # {}) =>
           /\ app'.state = "Running"
           /\ app'.images = {} /\ app'.files = {}
           /\ app'.atlas = app'.textures
           /\ app'.registry = { f.id : f \in app'.blocks }
           /\ (genLog # {} \/ meshLog # {}) => app'.registry = app.registry ]_vars

\* the run started in LoadTextures with both folders complete, and both
\* kinds of task were spawned
C25_Witness ==
    /\ genLog # {} /\ meshLog # {}
    /\ app.textures = TextureNames
    /\ app.registry = 0..3
    /\ ticks > 0

\* C26: a block id missing from BLOCKS and a texture name missing from the
\* TextureMap each make the process panic before any generation or meshing
\* task was spawned, never later.
C26_Claim == app.panic # "none" => (genLog = {} /\ meshLog = {})

\* C27: after chunk[c] = b for a cell c of the chunk, chunk[c] is b and every
\* other cell of the chunk holds what it held before; reading or writing a
\* cell with a coordinate past the end panics and leaves every cell as it
\* was.
C27_Access ==
    /\ out.op = "set" =>
          IF out.cell \in Cells
          THEN /\ ~out.res.panic
               /\ index(chunk, out.cell) = Done(out.block)
               /\ \A q \in Cells \ {out.cell} : index(chunk, q) = index(out.before, q)
          ELSE out.res.panic /\ chunk = out.before
    /\ out.op = "get" =>
          /\ chunk = out.before
          /\ out.res.panic <=> (out.cell \notin Cells)

\* the second write goes to a corner cell off the diagonal of the chunk
\* whose mirror cell was written before with the other block, and both cells
\* hold what was written to them
C27_Witness ==
    /\ out.op = "set"
    /\ out.n = 2
    /\ out.cell \in Cells
    /\ out.cell[2] # out.cell[3]
    /\ LET mirror == <<out.cell[1], out.cell[3], out.cell[2]>>
       IN /\ index(chunk, mirror) # Done(out.block)
          /\ index(chunk, mirror) # index(chunk, <<0, 0, 0>>)
    /\ index(chunk, out.cell) = Done(out.block)


\* C28: the rotation of a direction d turns the back vector (0, 0, -1) into
\* the unit vector of d and the forward vector (0, 0, 1) into the unit vector
\* of the inverse of d, which is the negated unit vector of d.
C28_Rotation ==
    out.op = "rotate" =>
        /\ out.v = Back => out.res = DirectionAll[out.d]
        /\ out.v = Forward => out.res = DirectionAll[inverse(out.d)]
        /\ DirectionAll[inverse(out.d)] = Neg(DirectionAll[out.d])

\* the forward vector is turned by the rotation of NegX and points along +x
C28_Witness ==
    /\ out.op = "rotate"
    /\ out.v = Forward
    /\ out.d = 1
    /\ out.res = <<1, 0, 0>>


\* the lattice points of the box [from, to)
BoxPoints(from, to) ==
    (from[1]..(to[1] - 1)) \X (from[2]..(to[2] - 1)) \X (from[3]..(to[3] - 1))

\* C29: for Range3::new(from, to) with from < to in every component, len and
\* count are the number of lattice points of the box [from, to), and the
\* first call of next returns Some(from).
C29_Claim ==
    /\ out.op \in {"new", "next"} =>
          /\ out.len = Cardinality(BoxPoints(out.from, out.to))
          /\ out.count = Cardinality(BoxPoints(out.from, out.to))
    /\ (out.op = "next" /\ out.calls = 1) => out.item = Some(out.from)


\* C30: the generation tasks init_generation spawns in one frame are spawned
\* in non-decreasing order of the distance of their chunk from the chunk of
\* the player: the tasks added to the pool are those of the spawned entities,
\* in the order of the spawns, and no entity of a farther shell is spawned
\* before one of a nearer shell.
C30_ShellOrder ==
    [][Step("init_generation") =>
          \A added \in { SubSeq(pool'.queue, Len(pool.queue) + 1, Len(pool'.queue)) } :
          \A spawned \in { SubSeq(cmds'["init_generation"],
                                  Len(cmds["init_generation"]) + 1,
                                  Len(cmds'["init_generation"])) } :
          \A shell \in { [i \in 1..Len(spawned) |->
                              distance(Sub(spawned[i].pos, center))] } :
             /\ Len(added) = Len(spawned)
             /\ \A i \in 1..Len(spawned) : added[i] = <<"gen", spawned[i].e>>
             /\ \A i, j \in 1..Len(spawned) : i < j => shell[i] <= shell[j]]_vars

\* init_generation has spawned the chunk of the player and, after it, chunks
\* of the shell around it
C30_Witness ==
    /\ "init_generation" \in ran
    /\ Len(cmds["init_generation"]) > 1
    /\ cmds["init_generation"][1].pos = center
    /\ \E i \in 2..Len(cmds["init_generation"]) :
          distance(Sub(cmds["init_generation"][i].pos, center)) = 1


\* the entity at p waits with MissingNeighbors or RequiresMesh
WaitingAt(p) == \E e \in DOMAIN ents : ents[e].pos = p /\ (ents[e].mn \/ ents[e].req)

\* C31: the observer at rest, the view distance fixed, nothing regenerated
\* and every task returning: eventually and from then on every coordinate
\* nearer to the observer's chunk than the view distance has a Visible
\* entity, and none of them waits with MissingNeighbors or RequiresMesh.
C31_Visible ==
    <>[](\A p \in Cube(center, view_distance - 1) :
            VisibleAt(p) /\ ~WaitingAt(p))

\* with view distance 2 all 27 coordinates within distance 1 are Visible
C31_Witness ==
    /\ view_distance = 2
    /\ \A p \in Cube(center, 1) : VisibleAt(p)


\* C32: between two frames the map and the live chunk entities correspond one
\* to one: every entity is the map's value at its coordinate, and every map
\* value is a live entity at that coordinate.
C32_Claim ==
    (ran = {} /\ ticks > 0) =>
        /\ \A e \in DOMAIN ents : ~Stale(e)
        /\ \A p \in DOMAIN chunks :
              chunks[p] \in DOMAIN ents /\ ents[chunks[p]].pos = p


\* the lifecycle markers entity e carries
Markers(e) ==
    { m \in {"gen", "mn", "req", "meshing", "mesh"} :
        \/ m = "gen" /\ ents[e].gen
        \/ m = "mn" /\ ents[e].mn
        \/ m = "req" /\ ents[e].req
        \/ m = "meshing" /\ ents[e].meshing
        \/ m = "mesh" /\ ents[e].mesh }

C34_Claim ==
    [][/\ Step("despawn_chunks") =>
              \A p \in DOMAIN chunks' : distance(Sub(center, p)) <= view_distance
       /\ Step("init_generation") =>
              \A p \in DOMAIN chunks' \ DOMAIN chunks :
                  distance(Sub(center, p)) <= view_distance
       /\ Step("despawn_chunks") =>
              \A p \in DOMAIN chunks \ DOMAIN chunks' :
                  distance(Sub(center, p)) > view_distance]_vars


\* C35: the counter of an entity with MissingNeighbors is between 1 and 6 in
\* every state, the count handle_generation computes for a finished entity
\* is between 0 and 6, a counter is decremented only when it is above 1, and
\* an entity is promoted to RequiresMesh when its counter stands at 1.
C35_Counter ==
    [][/\ \A e \in DOMAIN ents' : ents'[e].mn => ents'[e].missing \in 1..6
       /\ Step("handle_generation") =>
             /\ \A e \in DOMAIN ents :
                   ents'[e].missing # ents[e].missing =>
                       /\ ents[e].mn
                       /\ ents[e].missing > 1
                       /\ ents'[e].missing < ents[e].missing
             /\ \A c \in SeqRange(cmds'["handle_generation"]) :
                   /\ c.op = "generated" => c.missing \in 0..6
                   /\ c.op = "surrounded" =>
                         ents'[c.e].mn /\ ents'[c.e].missing = 1]_vars

\* handle_generation has promoted an entity whose counter stands at 1 while
\* another entity keeps waiting with a counter above 1
C35_Witness ==
    /\ "handle_generation" \in ran
    /\ \E c \in SeqRange(cmds["handle_generation"]) :
          c.op = "surrounded" /\ ents[c.e].missing = 1
    /\ \E e \in DOMAIN ents : ents[e].mn /\ ents[e].missing > 1


\* C36: for the direction d of a border and every (x, y) of the surface,
\* from_surface(d, (x, y)) is a cell of the face of the chunk towards d,
\* to_surface(d, .) takes it back to (x, y), and from_surface(d, .) is one to
\* one from the surface onto the Edge x Edge cells of that face.
C36_Surface ==
    out.op = "border" =>
        /\ \A v \in Surface :
              /\ from_surface(out.d, v)[((out.d - 1) % 3) + 1]
                    = (IF out.d <= 3 THEN 0 ELSE Edge - 1)
              /\ to_surface(out.d, from_surface(out.d, v)) = v
        /\ \A v, w \in Surface :
              from_surface(out.d, v) = from_surface(out.d, w) => v = w
        /\ { from_surface(out.d, v) : v \in Surface } = FaceCells(out.d)
        /\ Cardinality(FaceCells(out.d)) = Edge * Edge

\* the border towards PosX is taken; (1, 2) of its surface is the cell
\* (Edge - 1, 2, 1), as in test::rotation
C36_Witness ==
    /\ out.op = "border"
    /\ out.d = 4
    /\ from_surface(4, <<1, 2>>) = <<Edge - 1, 2, 1>>
    /\ to_surface(4, <<Edge - 1, 2, 1>>) = <<1, 2>>


\* C37: the buffers of a mesh hold, for every quad, 4 positions, 4 normals, 4
\* uvs and the 6 indices j, j+1, j+2, j, j+2, j+3, j being the index of the
\* first vertex of the quad: there are 4 vertices and 6 indices per quad, the
\* four vertices of a quad are corners 1..4 of one face with the normal of
\* that face, and every index is below the number of vertices.
C37_Quads ==
    out.op \in {"mesh", "block"} =>
        \A b \in {out.buffers} :
            /\ Len(b.positions) = 4 * out.quads
            /\ Len(b.normals) = 4 * out.quads
            /\ Len(b.uvs) = 4 * out.quads
            /\ Len(b.indices) = 6 * out.quads
            /\ \A q \in 1..out.quads :
                  \A j \in {4 * (q - 1)} :
                     /\ SubSeq(b.indices, 6 * q - 5, 6 * q)
                           = <<j, j + 1, j + 2, j, j + 2, j + 3>>
                     /\ \A i \in 1..4 :
                           /\ b.positions[j + i][4] = i
                           /\ b.positions[j + i][1] = b.positions[j + 1][1]
                           /\ b.positions[j + i][2] = b.positions[j + 1][2]
                           /\ b.positions[j + i][3] = b.positions[j + 1][3]
                           /\ b.normals[j + i] = DirectionAll[b.positions[j + 1][3]]
                           /\ b.uvs[j + i][2] = i
            /\ \A i \in 1..Len(b.indices) : b.indices[i] < Len(b.positions)

\* the mesh of a chunk that holds a cell of the block with two cubes and in
\* which faces were left out has more than twelve quads
C37_Witness ==
    /\ out.op = "mesh"
    /\ \E p \in Cells : chunk[p] = 4
    /\ \E p \in Cells : chunk[p] = 1
    /\ out.quads > 12
    /\ Len(out.buffers.indices) = 6 * out.quads


\* C38: chunk_pos(p) is the chunk coordinate c, positive, zero or negative,
\* with world_pos(c) <= p < world_pos(c) + SIZE in every component; so
\* chunk_pos(world_pos(c)) = c.
C38_Claim ==
    out.op = "chunk_pos" =>
        \A c \in Cube(<<0, 0, 0>>, 3) :
            (\A i \in 1..3 : /\ world_pos(c)[i] <= out.p[i]
                             /\ out.p[i] < world_pos(c)[i] + SIZE)
                => out.c = c

====
